---------------------------- MODULE Spec2Model ----------------------------
(***************************************************************************)
(* QuliQaT: the App component's persistent state, the per-topic content    *)
(* request state machine of its generation handlers, the persist effect    *)
(* that writes the state to localStorage and the load that reads it back,  *)
(* the chapter unit test, the chat and the theme; next to them the intro   *)
(* animation, the feedback form of the footer and the narration playback   *)
(* of the explanation card.                                                *)
(*                                                                         *)
(* A step of the model is one browser task: a handler run to its first     *)
(* await (or to its end), or the continuation of an await, together with   *)
(* the React commit it causes and the effects of that commit.  Handlers    *)
(* read `content`, `topics`, ... from the closure of the latest render,    *)
(* which is the state before the step; setPersistentState(prev => ...)     *)
(* updaters are applied in order to that state.                            *)
(***************************************************************************)
EXTENDS Integers, Sequences, FiniteSets, TLC

VARIABLES
    persistentState,     \* useState<PersistentState>
    isTopicsLoading,     \* useState<Record<string, boolean>>
    error,               \* useState<string | null>
    chapterContentView,  \* useState<'topics' | 'unitTest'>
    chapterUnitTest,     \* useState<LoadingState<UnitTest>>
    localStorage,        \* the browser's localStorage: key -> stored value
    requests,            \* generator calls awaited by a generation handler
    topicRequests,       \* getChapterTopics calls awaited by fetchTopics, [chapter, call]
    callCount,           \* generator calls issued by the generation handlers
    fetchCount,          \* getChapterTopics calls issued by fetchTopics
    theme,               \* useState<Theme>
    chat,                \* chatSession (a set: empty for null), chatHistory,
                         \* isChatLoading, isChatReady, and whether a render
                         \* has failed (crashed)
    chatStream,          \* the reply streams awaited by runs of handleSendMessage
    unitTestRequests,    \* getUnitTestForChapter calls awaited by the handler
    unitTestCount,       \* getUnitTestForChapter calls issued
    faultsLeft,          \* how many more localStorage.setItem calls may throw
    lastWrite,           \* how the latest run of the persist effect ended
    lastOp,              \* the handler or continuation that ran last
    introPhase,          \* useState<'start' | 'fly' | 'fade' | 'hidden'>
    introTimers,         \* the timeouts of the intro effect that are pending
    isModalOpen,         \* Footer: useState(false)
    feedback,            \* FeedbackModal: name, studentClass, message, status
    feedbackPosts,       \* POSTs awaited by runs of handleSubmit, [body, call]
    postCount,           \* POSTs issued by handleSubmit
    closeTimers,         \* pending timeouts that close the modal after a success
    playbackState,       \* AnswerCard: useState<PlaybackState>; NULL while no
                         \* explanation card is mounted
    audioState,          \* the card's audioState prop: the explanationAudio
                         \* entry of its topic (a set: empty for undefined)
    audioContext,        \* audioContextRef: "none", or the state of the context
    audioBuffer,         \* audioBufferRef holds a decoded buffer
    sourceNode,          \* sourceNodeRef holds a source node
    playingSources,      \* source nodes started and neither stopped nor ended
    cardAwaits,          \* promises the card awaits: "decode", "suspend",
                         \* "resume", and "wake" (the resume() before a start)
    speechCalls          \* generateSpeechFromScript calls awaited for the entry

vars == << persistentState, isTopicsLoading, error, chapterContentView,
           chapterUnitTest, localStorage, requests, topicRequests, callCount,
           fetchCount, theme, chat, chatStream, unitTestRequests, unitTestCount,
           faultsLeft, lastWrite, lastOp, introPhase, introTimers,
           isModalOpen, feedback, feedbackPosts, postCount, closeTimers,
           playbackState, audioState, audioContext, audioBuffer, sourceNode,
           playingSources, cardAwaits, speechCalls >>

\* The state of the components next to the content: the intro animation,
\* the feedback form of the footer and the card of the explanation with
\* its narration.
introVars == << introPhase, introTimers >>

feedbackVars == << isModalOpen, feedback, feedbackPosts, postCount, closeTimers >>

narrationVars == << playbackState, audioState, audioContext, audioBuffer,
                    sourceNode, playingSources, cardAwaits, speechCalls >>

componentVars == << introVars, feedbackVars, narrationVars >>

-----------------------------------------------------------------------------
(* Bounds of the model *)

MaxCalls == 2
MaxWriteFailures == 1
MaxTopicsLen == 2
MaxFetches == 2
MaxUnitTests == 2
MaxChunks == 1
MaxHistoryLen == 3
MaxPosts == 2

-----------------------------------------------------------------------------
(* Values *)

NULL == "null"
APP_STATE_KEY == "quliqatAppState"

Subjects == {"subject1"}
Standards == {"standard1"}
Chapters == {"c1", "c2"}
Topics == {"t1", "t2"}

ButtonKinds == {"answer", "visualPrompt", "realWorldExample", "mcqs"}
Kinds == ButtonKinds \cup {"explanationAudio"}

\* What the generator service resolves with: text for the text kinds and
\* the audio (the empty string included), a list of questions for mcqs.
GeneratorResults(kind) ==
    IF kind = "mcqs" THEN {<< >>, <<"q1">>} ELSE {"", "text1"}

\* What the generator service rejects with: an Error carrying a message, or
\* a value that is not an Error.
Failures == {[isError |-> TRUE, message |-> "failed"], [isError |-> FALSE]}

\* What getChapterTopics resolves with.
TopicLists == {<< >>, <<"t1", "t2">>}

WriteOutcomes == {"ok", "quota", "other"}

\* The questions getUnitTestForChapter resolves with.
UnitTests == {"test1"}

\* What the user types into the chat box, and the text of a streamed chunk.
ChatInputs == {"", " ", "hi"}
ChunkTexts == {"", "chunk"}

-----------------------------------------------------------------------------
(* Objects *)

EmptyObject == [f \in {} |-> f]

HasField(obj, f) == f \in DOMAIN obj

RemoveField(obj, f) == [g \in DOMAIN obj \ {f} |-> obj[g]]

\* { ...obj, [f]: v }
WithField(obj, f, v) == [g \in DOMAIN obj \cup {f} |-> IF g = f THEN v ELSE obj[g]]

\* JavaScript truthiness of a data value: an empty string is falsy, every
\* array (the empty one too) is truthy.
IsTruthy(kind, v) == IF kind = "mcqs" THEN TRUE ELSE v # ""

defaultState ==
    [ subject |-> NULL, standard |-> NULL, isCourseSelected |-> FALSE,
      selectedChapter |-> NULL, selectedTopic |-> NULL,
      topics |-> EmptyObject, content |-> EmptyObject,
      activeView |-> EmptyObject, noMoreTopics |-> EmptyObject ]

\* content[topic]?.[kind], as the set of the entries there (empty or one)
EntryAt(content, topic, kind) ==
    IF HasField(content, topic) /\ HasField(content[topic], kind)
    THEN {content[topic][kind]} ELSE {}

\* content[topic]?.[kind]?.data is truthy
HasTruthyData(content, topic, kind) ==
    \E e \in EntryAt(content, topic, kind) :
        HasField(e, "data") /\ IsTruthy(kind, e.data)

\* Mutant of IsCachedOrLoading: a failed entry counts as a hit too.
IsCachedLoadingOrFailed(content, topic, kind) ==
    \/ HasTruthyData(content, topic, kind)
    \/ \E e \in EntryAt(content, topic, kind) : e.isLoading \/ HasField(e, "error")

\* content[topic]?.[kind]?.data || content[topic]?.[kind]?.isLoading
IsCachedOrLoading(content, topic, kind) ==
    \/ HasTruthyData(content, topic, kind)
    \/ \E e \in EntryAt(content, topic, kind) : e.isLoading

\* Which of the states of LoadingState<T> the entry content[topic]?.[kind] is in.
EntryStatus(content, topic, kind) ==
    IF EntryAt(content, topic, kind) = {} THEN "absent"
    ELSE LET e == content[topic][kind]
         IN  IF e.isLoading THEN "loading"
             ELSE IF HasField(e, "data") THEN "data"
             ELSE IF HasField(e, "error") THEN "error"
             ELSE "idle"

\* Mutant of SetEntry: the new entry is spread over the old one, whose
\* other fields survive.
SetEntryOverOldEntry(content, topic, kind, entry, fallback) ==
    LET bundle == IF HasField(content, topic) THEN content[topic] ELSE fallback
        old    == IF HasField(bundle, kind) THEN bundle[kind] ELSE EmptyObject
        merged == [f \in DOMAIN old \cup DOMAIN entry |->
                      IF HasField(entry, f) THEN entry[f] ELSE old[f]]
    IN  [g \in DOMAIN content \cup {topic} |->
            IF g = topic
            THEN [h \in DOMAIN bundle \cup {kind} |->
                     IF h = kind THEN merged ELSE bundle[h]]
            ELSE content[g]]

\* Mutant of SetEntry: the bundle of the topic is not spread, so the
\* entries of its other kinds are dropped.
SetEntryDroppingSiblings(content, topic, kind, entry, fallback) ==
    [g \in DOMAIN content \cup {topic} |->
        IF g = topic
        THEN [h \in DOMAIN fallback \cup {kind} |->
                 IF h = kind THEN entry ELSE fallback[h]]
        ELSE content[g]]

\* { ...prev.content, [topic]: { ...(prev.content[topic] || fallback), [kind]: entry } }
SetEntry(content, topic, kind, entry, fallback) ==
    LET bundle == IF HasField(content, topic) THEN content[topic] ELSE fallback
    IN  WithField(content, topic, WithField(bundle, kind, entry))

-----------------------------------------------------------------------------
(* The persist effect *)

\* Mutant of StripBundle: the audio data is not deleted before the write.
StripNothing(bundle) == bundle

\* delete topicContent.explanationAudio.data, when that data is truthy
StripBundle(bundle) ==
    IF /\ HasField(bundle, "explanationAudio")
       /\ HasField(bundle.explanationAudio, "data")
       /\ IsTruthy("explanationAudio", bundle.explanationAudio.data)
    THEN WithField(bundle, "explanationAudio",
                   RemoveField(bundle.explanationAudio, "data"))
    ELSE bundle

\* The object handed to localStorage.setItem: a copy of the state with the
\* audio data of every topic deleted.
stateToPersist(state) ==
    [state EXCEPT !.content = [t \in DOMAIN state.content |-> StripBundle(state.content[t])]]

removeItem(store, key) == RemoveField(store, key)

\* A stored text is modelled by what JSON.parse makes of it: the text of an
\* object (with that object), the text "null", the text of a number, or a
\* text that is no JSON at all, such as a truncated one.
JSONstringify(value) == [kind |-> "object", value |-> value]

\* JSON.parse throws a SyntaxError on the text
ParseThrows(text) == text.kind = "truncated"

\* JSON.parse of a text of an object
JSONparse(text) == text.value

setItem(store, key, value) == WithField(store, key, value)

\* Mutant of PersistEffect: a QuotaExceededError is handled like any other
\* error.
PersistEffectKeepingOnQuota(state, store, outcome) ==
    CASE outcome = "ok"    -> setItem(store, APP_STATE_KEY,
                                       JSONstringify(stateToPersist(state)))
      [] OTHER             -> store

\* The effect on [persistentState]: setItem may throw; a QuotaExceededError
\* removes the item, any other error leaves the store alone.
PersistEffect(state, store, outcome) ==
    CASE outcome = "ok"    -> setItem(store, APP_STATE_KEY,
                                       JSONstringify(stateToPersist(state)))
      [] outcome = "quota" -> removeItem(store, APP_STATE_KEY)
      [] OTHER             -> store

\* A commit of a new persistentState `state`, the store being `store` when
\* the effect runs.
Commit(state, store) ==
    \E outcome \in WriteOutcomes :
        /\ outcome # "ok" => faultsLeft > 0
        /\ persistentState' = state
        /\ localStorage' = PersistEffect(state, store, outcome)
        /\ lastWrite' = outcome
        /\ faultsLeft' = IF outcome = "ok" THEN faultsLeft ELSE faultsLeft - 1

NoCommit == UNCHANGED << persistentState, localStorage, lastWrite, faultsLeft >>

-----------------------------------------------------------------------------
(* The theme and chat effects *)

THEME_KEY == "theme"

Themes == {"light", "oled"}

\* The effect on [theme]: localStorage.setItem('theme', theme)
ThemeEffect(store, newTheme) == setItem(store, THEME_KEY, newTheme)

\* A chat message; its text is the sequence of the pieces it was built from.
Message(role, parts) == [role |-> role, parts |-> parts]

WelcomeMessage(state) ==
    Message("model", IF state.selectedChapter # NULL
                     THEN <<"focus", state.selectedChapter>>
                     ELSE <<"buddy", state.subject, state.standard>>)

\* The effect on [isCourseSelected, standard, subject, selectedChapter]: a
\* new session and a history of the welcome message while a course is
\* selected, no session and no history otherwise.  isChatLoading is not
\* touched.
ChatEffect(state, old) ==
    IF state.isCourseSelected /\ state.standard # NULL /\ state.subject # NULL
    THEN [ session   |-> {[standard |-> state.standard, subject |-> state.subject,
                           chapter |-> state.selectedChapter]},
           history   |-> <<WelcomeMessage(state)>>,
           isLoading |-> old.isLoading,
           isReady   |-> TRUE,
           crashed   |-> old.crashed ]
    ELSE [ session   |-> {},
           history   |-> << >>,
           isLoading |-> old.isLoading,
           isReady   |-> FALSE,
           crashed   |-> old.crashed ]

initialChat ==
    [session |-> {}, history |-> << >>, isLoading |-> FALSE, isReady |-> FALSE,
     crashed |-> FALSE]

-----------------------------------------------------------------------------
(* The components next to the content, as a mounted App starts them *)

\* The timeouts set by the intro effect: the phase each one sets and its
\* delay in milliseconds.
IntroTimers ==
    { [delay |-> 2000, phase |-> "fly"],
      [delay |-> 2900, phase |-> "fade"],
      [delay |-> 3500, phase |-> "hidden"] }

\* STANDARDS[0]
FirstStandard == "standard1"

\* initialStandard || STANDARDS[0]
InitialClass(state) ==
    IF state.standard # NULL THEN state.standard ELSE FirstStandard

\* The form of the feedback modal as its useState calls and its reset leave it.
EmptyForm(state) ==
    [name |-> "", studentClass |-> InitialClass(state), message |-> "",
     status |-> "idle"]

ComponentsInit ==
    /\ introPhase = "start"
    /\ introTimers = IntroTimers
    /\ isModalOpen = FALSE
    /\ feedback = EmptyForm(persistentState)
    /\ feedbackPosts = {}
    /\ postCount = 0
    /\ closeTimers = 0
    /\ playbackState = NULL
    /\ audioState = {}
    /\ audioContext = "none"
    /\ audioBuffer = FALSE
    /\ sourceNode = FALSE
    /\ playingSources = 0
    /\ cardAwaits = {}
    /\ speechCalls = 0

\* The same, of the page loaded again: what the page before awaited is gone.
ComponentsMount ==
    /\ introPhase' = "start"
    /\ introTimers' = IntroTimers
    /\ isModalOpen' = FALSE
    /\ feedback' = EmptyForm(persistentState')
    /\ feedbackPosts' = {}
    /\ closeTimers' = 0
    /\ UNCHANGED postCount
    /\ playbackState' = NULL
    /\ audioState' = {}
    /\ audioContext' = "none"
    /\ audioBuffer' = FALSE
    /\ sourceNode' = FALSE
    /\ playingSources' = 0
    /\ cardAwaits' = {}
    /\ speechCalls' = 0

-----------------------------------------------------------------------------
(* Initial state: first visit, nothing stored; the mount runs the effect.   *)
(* Under Init the browser's storage accepts every write.                   *)

\* lastOp records the last run of a generation handler ("generate", with
\* whether it called the generator) or of its continuation ("resolved",
\* "rejected"); every other step leaves OtherOp.
\* `before` is the state of the entry the step was about when it began.
Op(name, topic, kind, called, before) ==
    [op |-> name, topic |-> topic, kind |-> kind, called |-> called,
     before |-> before]

OtherOp == Op("other", NULL, NULL, FALSE, NULL)

Init ==
    /\ persistentState = defaultState
    /\ isTopicsLoading = EmptyObject
    /\ error = NULL
    /\ chapterContentView = "topics"
    /\ chapterUnitTest = [isLoading |-> FALSE]
    /\ localStorage = ThemeEffect(setItem(EmptyObject, APP_STATE_KEY,
                                          JSONstringify(stateToPersist(defaultState))),
                                  "light")
    /\ requests = {}
    /\ topicRequests = {}
    /\ callCount = 0
    /\ fetchCount = 0
    /\ theme = "light"
    /\ chat = ChatEffect(defaultState, initialChat)
    /\ chatStream = {}
    /\ unitTestRequests = {}
    /\ unitTestCount = 0
    /\ faultsLeft = 0
    /\ lastWrite = "ok"
    /\ lastOp = OtherOp
    /\ ComponentsInit

-----------------------------------------------------------------------------
(* What is rendered *)

\* The sidebar shows the course panel, the chapter dropdown and the topic
\* list once a course is selected.
CoursePanelShown ==
    /\ persistentState.isCourseSelected
    /\ persistentState.subject # NULL
    /\ persistentState.standard # NULL

\* ContentDisplay is rendered in the topic view and shows the action
\* buttons of the selected topic unless an error is displayed.
ActionsShown ==
    /\ chapterContentView = "topics"
    /\ error = NULL
    /\ persistentState.isCourseSelected
    /\ persistentState.selectedTopic # NULL

\* topics[selectedChapter || ''] || []
ListedTopics ==
    LET chapter == persistentState.selectedChapter
    IN  IF chapter # NULL /\ HasField(persistentState.topics, chapter)
        THEN {persistentState.topics[chapter][i] :
                 i \in 1..Len(persistentState.topics[chapter])}
        ELSE {}

\* The generated content area of ContentDisplay shows the data of `kind`
\* for `topic`: the topic is selected, the view is the kind's, and the
\* entry is not loading, has no error and has truthy data.
Displayed(topic, kind) ==
    /\ ActionsShown
    /\ persistentState.selectedTopic = topic
    /\ HasField(persistentState.activeView, topic)
    /\ persistentState.activeView[topic]
           = (IF kind = "visualPrompt" THEN "visualize" ELSE kind)
    /\ \E e \in EntryAt(persistentState.content, topic, kind) :
           /\ ~e.isLoading
           /\ ~HasField(e, "error")
           /\ HasField(e, "data") /\ IsTruthy(kind, e.data)

-----------------------------------------------------------------------------
(* Course, chapter and topic selection *)

\* The render of the course branch of the sidebar dereferences
\* topics[selectedChapter || ''] and noMoreTopics[selectedChapter || '']: on a
\* state without these collections it throws, and with nothing to catch it
\* the application is gone until the page is reloaded; the state of that
\* render is not committed and no effect runs.
RenderThrows(state) ==
    /\ state.isCourseSelected
    /\ state.subject # NULL
    /\ state.standard # NULL
    /\ ~(HasField(state, "topics") /\ HasField(state, "noMoreTopics"))

handleCourseSelect(newSubject, newStandard) ==
    /\ ~persistentState.isCourseSelected
    /\ LET selected == [persistentState EXCEPT !.subject = newSubject,
                                               !.standard = newStandard,
                                               !.isCourseSelected = TRUE]
       IN  IF RenderThrows(selected)
           THEN /\ NoCommit
                /\ chat' = [chat EXCEPT !.crashed = TRUE]
           ELSE /\ Commit(selected, localStorage)
                /\ chat' = ChatEffect(selected, chat)
    /\ lastOp' = OtherOp
    /\ UNCHANGED << isTopicsLoading, error, chapterContentView, chapterUnitTest,
                    requests, topicRequests, callCount, fetchCount >>
    /\ UNCHANGED << theme, chatStream, unitTestRequests, unitTestCount >>
    /\ UNCHANGED componentVars

\* Mutant of fetchTopics: a call is issued while the chapter's flag is set.
fetchTopicsWhileLoading(chapter) ==
    IF \/ persistentState.standard = NULL
       \/ persistentState.subject = NULL
    THEN UNCHANGED << isTopicsLoading, error, topicRequests, fetchCount >>
    ELSE /\ fetchCount < MaxFetches
         /\ isTopicsLoading' = WithField(isTopicsLoading, chapter, TRUE)
         /\ error' = NULL
         /\ topicRequests' = topicRequests \cup
                                {[chapter |-> chapter, call |-> fetchCount + 1]}
         /\ fetchCount' = fetchCount + 1

\* The body of fetchTopics up to its await; a call is identified by its
\* number in the sequence of calls issued.
fetchTopics(chapter) ==
    IF \/ (HasField(isTopicsLoading, chapter) /\ isTopicsLoading[chapter])
       \/ persistentState.standard = NULL
       \/ persistentState.subject = NULL
    THEN UNCHANGED << isTopicsLoading, error, topicRequests, fetchCount >>
    ELSE /\ fetchCount < MaxFetches
         /\ isTopicsLoading' = WithField(isTopicsLoading, chapter, TRUE)
         /\ error' = NULL
         /\ topicRequests' = topicRequests \cup
                                {[chapter |-> chapter, call |-> fetchCount + 1]}
         /\ fetchCount' = fetchCount + 1

\* Mutant of handleChapterSelect: the selected topic is kept when another
\* chapter is selected.
handleChapterSelectKeepingTopic(chapter) ==
    /\ CoursePanelShown
    /\ IF persistentState.selectedChapter = chapter
       THEN /\ NoCommit
            /\ UNCHANGED << isTopicsLoading, error, topicRequests, fetchCount,
                            chapterContentView, chapterUnitTest, chat >>
       ELSE /\ Commit([persistentState EXCEPT !.selectedChapter = chapter],
                      localStorage)
            /\ chat' = ChatEffect(persistentState', chat)
            /\ chapterContentView' = "topics"
            /\ chapterUnitTest' = [isLoading |-> FALSE]
            /\ IF ~HasField(persistentState.topics, chapter)
               THEN fetchTopics(chapter)
               ELSE UNCHANGED << isTopicsLoading, error, topicRequests, fetchCount >>
    /\ lastOp' = OtherOp
    /\ UNCHANGED << requests, callCount >>
    /\ UNCHANGED << theme, chatStream, unitTestRequests, unitTestCount >>
    /\ UNCHANGED componentVars

handleChapterSelect(chapter) ==
    /\ CoursePanelShown
    /\ IF persistentState.selectedChapter = chapter
       THEN /\ NoCommit
            /\ UNCHANGED << isTopicsLoading, error, topicRequests, fetchCount,
                            chapterContentView, chapterUnitTest, chat >>
       ELSE /\ Commit([persistentState EXCEPT !.selectedChapter = chapter,
                                              !.selectedTopic = NULL], localStorage)
            /\ chat' = ChatEffect(persistentState', chat)
            /\ chapterContentView' = "topics"
            /\ chapterUnitTest' = [isLoading |-> FALSE]
            /\ IF ~HasField(persistentState.topics, chapter)
               THEN fetchTopics(chapter)
               ELSE UNCHANGED << isTopicsLoading, error, topicRequests, fetchCount >>
    /\ lastOp' = OtherOp
    /\ UNCHANGED << requests, callCount >>
    /\ UNCHANGED << theme, chatStream, unitTestRequests, unitTestCount >>
    /\ UNCHANGED componentVars

\* onLoadMore of the topic list
onLoadMore ==
    /\ CoursePanelShown
    /\ persistentState.selectedChapter # NULL
    /\ fetchTopics(persistentState.selectedChapter)
    /\ NoCommit
    /\ lastOp' = OtherOp
    /\ UNCHANGED << chapterContentView, chapterUnitTest, requests, callCount >>
    /\ UNCHANGED << theme, chat, chatStream, unitTestRequests, unitTestCount >>
    /\ UNCHANGED componentVars

\* Mutant of fetchTopicsResolved: a bundle is created in the content store
\* for every topic that arrives.
fetchTopicsResolvedSeedingContent(chapter, newTopics) ==
    /\ \E request \in topicRequests :
          /\ request.chapter = chapter
          /\ topicRequests' = topicRequests \ {request}
    /\ LET old == IF HasField(persistentState.topics, chapter)
                  THEN persistentState.topics[chapter] ELSE << >>
           arrived == {newTopics[i] : i \in 1..Len(newTopics)}
       IN  /\ Len(old) + Len(newTopics) <= MaxTopicsLen
           /\ IF Len(newTopics) = 0
              THEN Commit([persistentState EXCEPT !.noMoreTopics =
                              WithField(@, chapter, TRUE)], localStorage)
              ELSE Commit([persistentState EXCEPT
                              !.topics = WithField(@, chapter, old \o newTopics),
                              !.content = [topic \in DOMAIN @ \cup arrived |->
                                              IF topic \in DOMAIN @ THEN @[topic]
                                              ELSE [question |-> topic]]],
                          localStorage)
    /\ isTopicsLoading' = WithField(isTopicsLoading, chapter, FALSE)
    /\ lastOp' = OtherOp
    /\ UNCHANGED << error, chapterContentView, chapterUnitTest, requests, callCount,
                    fetchCount >>
    /\ UNCHANGED << theme, chat, chatStream, unitTestRequests, unitTestCount >>
    /\ UNCHANGED componentVars

\* fetchTopics after its await, getChapterTopics having resolved
fetchTopicsResolved(chapter, newTopics) ==
    /\ \E request \in topicRequests :
          /\ request.chapter = chapter
          /\ topicRequests' = topicRequests \ {request}
    /\ LET old == IF HasField(persistentState.topics, chapter)
                  THEN persistentState.topics[chapter] ELSE << >>
       IN  /\ Len(old) + Len(newTopics) <= MaxTopicsLen
           /\ IF Len(newTopics) = 0
              THEN Commit([persistentState EXCEPT !.noMoreTopics =
                              WithField(@, chapter, TRUE)], localStorage)
              ELSE Commit([persistentState EXCEPT !.topics =
                              WithField(@, chapter, old \o newTopics)], localStorage)
    /\ isTopicsLoading' = WithField(isTopicsLoading, chapter, FALSE)
    /\ lastOp' = OtherOp
    /\ UNCHANGED << error, chapterContentView, chapterUnitTest, requests, callCount,
                    fetchCount >>
    /\ UNCHANGED << theme, chat, chatStream, unitTestRequests, unitTestCount >>
    /\ UNCHANGED componentVars

\* fetchTopics after its await, getChapterTopics having rejected
fetchTopicsRejected(chapter, failure) ==
    /\ \E request \in topicRequests :
          /\ request.chapter = chapter
          /\ topicRequests' = topicRequests \ {request}
    /\ error' = IF failure.isError THEN failure.message
                ELSE "An unexpected error occurred."
    /\ isTopicsLoading' = WithField(isTopicsLoading, chapter, FALSE)
    /\ NoCommit
    /\ lastOp' = OtherOp
    /\ UNCHANGED << chapterContentView, chapterUnitTest, requests, callCount,
                    fetchCount >>
    /\ UNCHANGED << theme, chat, chatStream, unitTestRequests, unitTestCount >>
    /\ UNCHANGED componentVars

\* Mutant of handleTopicSelect: a topic is shown without a selected view
\* each time it is selected.
handleTopicSelectResettingView(topic) ==
    /\ CoursePanelShown
    /\ topic \in ListedTopics
    /\ chapterContentView' = "topics"
    /\ Commit([persistentState EXCEPT !.selectedTopic = topic,
                                      !.activeView = RemoveField(@, topic)],
              localStorage)
    /\ lastOp' = OtherOp
    /\ UNCHANGED << isTopicsLoading, error, chapterUnitTest, requests,
                    topicRequests, callCount, fetchCount >>
    /\ UNCHANGED << theme, chat, chatStream, unitTestRequests, unitTestCount >>
    /\ UNCHANGED componentVars

\* Mutant of handleTopicSelect: leaving a topic abandons its requests.
handleTopicSelectCancelling(topic) ==
    /\ CoursePanelShown
    /\ topic \in ListedTopics
    /\ chapterContentView' = "topics"
    /\ Commit([persistentState EXCEPT !.selectedTopic = topic], localStorage)
    /\ lastOp' = OtherOp
    /\ requests' = {r \in requests : r.topic = topic}
    /\ UNCHANGED << isTopicsLoading, error, chapterUnitTest,
                    topicRequests, callCount, fetchCount >>
    /\ UNCHANGED << theme, chat, chatStream, unitTestRequests, unitTestCount >>
    /\ UNCHANGED componentVars

handleTopicSelect(topic) ==
    /\ CoursePanelShown
    /\ topic \in ListedTopics
    /\ chapterContentView' = "topics"
    /\ Commit([persistentState EXCEPT !.selectedTopic = topic], localStorage)
    /\ lastOp' = OtherOp
    /\ UNCHANGED << isTopicsLoading, error, chapterUnitTest, requests,
                    topicRequests, callCount, fetchCount >>
    /\ UNCHANGED << theme, chat, chatStream, unitTestRequests, unitTestCount >>
    /\ UNCHANGED componentVars

\* Mutant of resetStateForNewSelection: the item is removed after the
\* effect of the reset has written the default state.
resetRemovingLast ==
    /\ CoursePanelShown
    /\ \E outcome \in WriteOutcomes :
           /\ outcome # "ok" => faultsLeft > 0
           /\ persistentState' = defaultState
           /\ localStorage' = removeItem(PersistEffect(defaultState, localStorage,
                                                      outcome), APP_STATE_KEY)
           /\ lastWrite' = outcome
           /\ faultsLeft' = IF outcome = "ok" THEN faultsLeft ELSE faultsLeft - 1
    /\ error' = NULL
    /\ chat' = ChatEffect(defaultState, chat)
    /\ lastOp' = OtherOp
    /\ UNCHANGED << isTopicsLoading, chapterContentView, chapterUnitTest,
                    requests, topicRequests, callCount, fetchCount >>
    /\ UNCHANGED << theme, chatStream, unitTestRequests, unitTestCount >>
    /\ UNCHANGED componentVars

resetStateForNewSelection ==
    /\ CoursePanelShown
    /\ Commit(defaultState, removeItem(localStorage, APP_STATE_KEY))
    /\ error' = NULL
    /\ chat' = ChatEffect(defaultState, chat)
    /\ lastOp' = OtherOp
    /\ UNCHANGED << isTopicsLoading, chapterContentView, chapterUnitTest,
                    requests, topicRequests, callCount, fetchCount >>
    /\ UNCHANGED << theme, chatStream, unitTestRequests, unitTestCount >>
    /\ UNCHANGED componentVars

-----------------------------------------------------------------------------
(* The generation handlers *)

LoadingEntry == [isLoading |-> TRUE]

DataEntry(data) == [isLoading |-> FALSE, data |-> data]

ErrorEntry(message) == [isLoading |-> FALSE, error |-> message]

\* err instanceof Error ? err.message : <the handler's fallback string>
ErrorText(kind, failure) ==
    IF failure.isError THEN failure.message
    ELSE IF kind = "explanationAudio" THEN "Unknown error generating audio."
    ELSE "Unknown error"

\* The arguments of the generator call a handler makes.
Request(kind, topic, chapter, script) ==
    [id |-> callCount + 1, kind |-> kind, topic |-> topic,
     chapter |-> chapter, script |-> script]

\* Mutant of Generate: the view is selected after the dedup check, so only
\* when a request is started.
GenerateSelectingViewOnMiss(topic, kind, view, chapter) ==
    /\ ActionsShown
    /\ topic = persistentState.selectedTopic
    /\ LET viewed == [persistentState EXCEPT !.activeView = WithField(@, topic, view)]
       IN  IF IsCachedOrLoading(persistentState.content, topic, kind)
           THEN /\ Commit(persistentState, localStorage)
                /\ lastOp' = Op("generate", topic, kind, FALSE,
                                 EntryStatus(persistentState.content, topic, kind))
                /\ UNCHANGED << requests, callCount >>
           ELSE /\ callCount < MaxCalls
                /\ Commit([viewed EXCEPT !.content =
                              SetEntry(@, topic, kind, LoadingEntry,
                                       [question |-> topic])], localStorage)
                /\ requests' = requests \cup {Request(kind, topic, chapter, NULL)}
                /\ callCount' = callCount + 1
                /\ lastOp' = Op("generate", topic, kind, TRUE,
                                 EntryStatus(persistentState.content, topic, kind))
    /\ UNCHANGED << isTopicsLoading, error, chapterContentView, chapterUnitTest,
                    topicRequests, fetchCount >>
    /\ UNCHANGED << theme, chat, chatStream, unitTestRequests, unitTestCount >>
    /\ UNCHANGED componentVars

\* Mutant of Generate: the view map is rebuilt with the entry of the topic
\* only, so the views of the other topics are lost.
GenerateDroppingOtherViews(topic, kind, view, chapter) ==
    /\ ActionsShown
    /\ topic = persistentState.selectedTopic
    /\ LET viewed == [persistentState EXCEPT !.activeView =
                          WithField(EmptyObject, topic, view)]
       IN  IF IsCachedOrLoading(persistentState.content, topic, kind)
           THEN /\ Commit(viewed, localStorage)
                /\ lastOp' = Op("generate", topic, kind, FALSE,
                                 EntryStatus(persistentState.content, topic, kind))
                /\ UNCHANGED << requests, callCount >>
           ELSE /\ callCount < MaxCalls
                /\ Commit([viewed EXCEPT !.content =
                              SetEntry(@, topic, kind, LoadingEntry,
                                       [question |-> topic])], localStorage)
                /\ requests' = requests \cup {Request(kind, topic, chapter, NULL)}
                /\ callCount' = callCount + 1
                /\ lastOp' = Op("generate", topic, kind, TRUE,
                                 EntryStatus(persistentState.content, topic, kind))
    /\ UNCHANGED << isTopicsLoading, error, chapterContentView, chapterUnitTest,
                    topicRequests, fetchCount >>
    /\ UNCHANGED << theme, chat, chatStream, unitTestRequests, unitTestCount >>
    /\ UNCHANGED componentVars

\* The four button handlers have one shape: select the view, return when the
\* entry is cached or loading, else mark it loading and call the generator.
Generate(topic, kind, view, chapter) ==
    /\ ActionsShown
    /\ topic = persistentState.selectedTopic
    /\ LET viewed == [persistentState EXCEPT !.activeView = WithField(@, topic, view)]
       IN  IF IsCachedOrLoading(persistentState.content, topic, kind)
           THEN /\ Commit(viewed, localStorage)
                /\ lastOp' = Op("generate", topic, kind, FALSE,
                                 EntryStatus(persistentState.content, topic, kind))
                /\ UNCHANGED << requests, callCount >>
           ELSE /\ callCount < MaxCalls
                /\ Commit([viewed EXCEPT !.content =
                              SetEntry(@, topic, kind, LoadingEntry,
                                       [question |-> topic])], localStorage)
                /\ requests' = requests \cup {Request(kind, topic, chapter, NULL)}
                /\ callCount' = callCount + 1
                /\ lastOp' = Op("generate", topic, kind, TRUE,
                                 EntryStatus(persistentState.content, topic, kind))
    /\ UNCHANGED << isTopicsLoading, error, chapterContentView, chapterUnitTest,
                    topicRequests, fetchCount >>
    /\ UNCHANGED << theme, chat, chatStream, unitTestRequests, unitTestCount >>
    /\ UNCHANGED componentVars

handleGenerateAnswer(topic) ==
    Generate(topic, "answer", "answer", persistentState.selectedChapter)

handleGenerateRealWorldExample(topic) ==
    Generate(topic, "realWorldExample", "realWorldExample",
             persistentState.selectedChapter)

handleGenerateVisualPrompt(topic) ==
    Generate(topic, "visualPrompt", "visualize", NULL)

handleGenerateMCQs(topic) ==
    Generate(topic, "mcqs", "mcqs", NULL)

\* const currentExplanation = content[topic]?.answer?.data (NULL: undefined)
CurrentExplanation(content, topic) ==
    IF \E e \in EntryAt(content, topic, "answer") : HasField(e, "data")
    THEN content[topic].answer.data ELSE NULL

\* Mutant of HasExplanation: the guard on the explanation is missing.
HasExplanationUnchecked(content, topic) == TRUE

\* if (!currentExplanation) return
HasExplanation(content, topic) == HasTruthyData(content, topic, "answer")

handleGenerateExplanationAudio(topic) ==
    /\ ActionsShown
    /\ topic = persistentState.selectedTopic
    /\ IF \/ ~HasExplanation(persistentState.content, topic)
          \/ IsCachedOrLoading(persistentState.content, topic, "explanationAudio")
       THEN /\ NoCommit
            /\ lastOp' = Op("generate", topic, "explanationAudio", FALSE,
                             EntryStatus(persistentState.content, topic,
                                         "explanationAudio"))
            /\ UNCHANGED << requests, callCount >>
       ELSE /\ callCount < MaxCalls
            /\ Commit([persistentState EXCEPT !.content =
                          SetEntry(@, topic, "explanationAudio", LoadingEntry,
                                   EmptyObject)], localStorage)
            /\ requests' = requests \cup
                   {Request("explanationAudio", topic, NULL,
                            CurrentExplanation(persistentState.content, topic))}
            /\ callCount' = callCount + 1
            /\ lastOp' = Op("generate", topic, "explanationAudio", TRUE,
                             EntryStatus(persistentState.content, topic,
                                         "explanationAudio"))
    /\ UNCHANGED << isTopicsLoading, error, chapterContentView, chapterUnitTest,
                    topicRequests, fetchCount >>
    /\ UNCHANGED << theme, chat, chatStream, unitTestRequests, unitTestCount >>
    /\ UNCHANGED componentVars

\* What a continuation did: the pair of its request and the chapter the
\* generator was called with (NULL for the kinds called without a chapter).
ResolvedOp(request, before) ==
    [op |-> "resolved", topic |-> request.topic, kind |-> request.kind,
     called |-> FALSE, before |-> before, chapter |-> request.chapter]

\* A handler after its await, the generator having resolved with `data`.
generatorResolved(request, data) ==
    /\ request \in requests
    /\ data \in GeneratorResults(request.kind)
    /\ Commit([persistentState EXCEPT !.content =
                  SetEntry(@, request.topic, request.kind, DataEntry(data),
                           EmptyObject)], localStorage)
    /\ requests' = requests \ {request}
    /\ lastOp' = ResolvedOp(request, EntryStatus(persistentState.content,
                                                 request.topic, request.kind))
    /\ UNCHANGED << isTopicsLoading, error, chapterContentView, chapterUnitTest,
                    topicRequests, callCount, fetchCount >>
    /\ UNCHANGED << theme, chat, chatStream, unitTestRequests, unitTestCount >>
    /\ UNCHANGED componentVars

\* Mutant of generatorRejected: the catch block sets no state, the entry
\* stays as the handler left it.
generatorRejectedSilently(request, failure) ==
    /\ request \in requests
    /\ Commit(persistentState, localStorage)
    /\ requests' = requests \ {request}
    /\ lastOp' = Op("rejected", request.topic, request.kind, FALSE,
                     EntryStatus(persistentState.content, request.topic,
                                 request.kind))
    /\ UNCHANGED << isTopicsLoading, error, chapterContentView, chapterUnitTest,
                    topicRequests, callCount, fetchCount >>
    /\ UNCHANGED << theme, chat, chatStream, unitTestRequests, unitTestCount >>
    /\ UNCHANGED componentVars

\* Mutant of generatorRejected: the entry of the failed request is dropped
\* from the bundle.
generatorRejectedDroppingEntry(request, failure) ==
    /\ request \in requests
    /\ Commit([persistentState EXCEPT !.content =
                  IF HasField(@, request.topic)
                  THEN WithField(@, request.topic,
                                 RemoveField(@[request.topic], request.kind))
                  ELSE @], localStorage)
    /\ requests' = requests \ {request}
    /\ lastOp' = Op("rejected", request.topic, request.kind, FALSE,
                     EntryStatus(persistentState.content, request.topic,
                                 request.kind))
    /\ UNCHANGED << isTopicsLoading, error, chapterContentView, chapterUnitTest,
                    topicRequests, callCount, fetchCount >>
    /\ UNCHANGED << theme, chat, chatStream, unitTestRequests, unitTestCount >>
    /\ UNCHANGED componentVars

\* What a catch block did: the pair of its request and what was thrown.
RejectedOp(topic, kind, before, failure) ==
    [op |-> "rejected", topic |-> topic, kind |-> kind, called |-> FALSE,
     before |-> before, failure |-> failure]

\* Mutant of generatorRejected: the catch block stores the fallback string
\* whatever was thrown.
generatorRejectedWithFallback(request, failure) ==
    /\ request \in requests
    /\ Commit([persistentState EXCEPT !.content =
                  SetEntry(@, request.topic, request.kind,
                           ErrorEntry(ErrorText(request.kind, [isError |-> FALSE])),
                           EmptyObject)], localStorage)
    /\ requests' = requests \ {request}
    /\ lastOp' = RejectedOp(request.topic, request.kind,
                            EntryStatus(persistentState.content, request.topic,
                                        request.kind), failure)
    /\ UNCHANGED << isTopicsLoading, error, chapterContentView, chapterUnitTest,
                    topicRequests, callCount, fetchCount >>
    /\ UNCHANGED << theme, chat, chatStream, unitTestRequests, unitTestCount >>
    /\ UNCHANGED componentVars

\* A handler in its catch block, the generator having rejected with `failure`.
generatorRejected(request, failure) ==
    /\ request \in requests
    /\ Commit([persistentState EXCEPT !.content =
                  SetEntry(@, request.topic, request.kind,
                           ErrorEntry(ErrorText(request.kind, failure)),
                           EmptyObject)], localStorage)
    /\ requests' = requests \ {request}
    /\ lastOp' = RejectedOp(request.topic, request.kind,
                            EntryStatus(persistentState.content, request.topic,
                                        request.kind), failure)
    /\ UNCHANGED << isTopicsLoading, error, chapterContentView, chapterUnitTest,
                    topicRequests, callCount, fetchCount >>
    /\ UNCHANGED << theme, chat, chatStream, unitTestRequests, unitTestCount >>
    /\ UNCHANGED componentVars

-----------------------------------------------------------------------------
(* The chapter unit test *)

\* The button of the sidebar's Tools panel, disabled while a test is loading.
handleGenerateChapterUnitTest ==
    /\ CoursePanelShown
    /\ persistentState.selectedChapter # NULL
    /\ ~chapterUnitTest.isLoading
    /\ unitTestCount < MaxUnitTests
    /\ chapterContentView' = "unitTest"
    /\ chapterUnitTest' = [isLoading |-> TRUE]
    /\ error' = NULL
    /\ unitTestRequests' = unitTestRequests \cup
           {[id |-> unitTestCount + 1, chapter |-> persistentState.selectedChapter]}
    /\ unitTestCount' = unitTestCount + 1
    /\ NoCommit
    /\ lastOp' = OtherOp
    /\ UNCHANGED << isTopicsLoading, requests, topicRequests, callCount, fetchCount,
                    theme, chat, chatStream >>
    /\ UNCHANGED componentVars

\* The unit test the service returns for a call: questions on the chapter
\* it was called with.
UnitTestFor(chapter, test) == [chapter |-> chapter, questions |-> test]

\* The handler after its await, getUnitTestForChapter having resolved.
unitTestResolved(request, test) ==
    /\ request \in unitTestRequests
    /\ chapterUnitTest' = [isLoading |-> FALSE,
                           data |-> UnitTestFor(request.chapter, test)]
    /\ unitTestRequests' = unitTestRequests \ {request}
    /\ NoCommit
    /\ lastOp' = OtherOp
    /\ UNCHANGED << isTopicsLoading, error, chapterContentView, requests,
                    topicRequests, callCount, fetchCount, theme, chat, chatStream,
                    unitTestCount >>
    /\ UNCHANGED componentVars

\* The handler in its catch block, getUnitTestForChapter having rejected.
unitTestRejected(request, failure) ==
    /\ request \in unitTestRequests
    /\ LET errorMsg == IF failure.isError THEN failure.message
                       ELSE "Failed to generate the unit test."
       IN  /\ chapterUnitTest' = [isLoading |-> FALSE, error |-> errorMsg]
           /\ error' = errorMsg
    /\ unitTestRequests' = unitTestRequests \ {request}
    /\ NoCommit
    /\ lastOp' = OtherOp
    /\ UNCHANGED << isTopicsLoading, chapterContentView, requests, topicRequests,
                    callCount, fetchCount, theme, chat, chatStream, unitTestCount >>
    /\ UNCHANGED componentVars

-----------------------------------------------------------------------------
(* The theme toggle *)

\* prevTheme === 'light' ? 'oled' : 'light'
ToggledTheme(prevTheme) == IF prevTheme = "light" THEN "oled" ELSE "light"

\* Mutant of toggleTheme: the toggle always selects the oled theme.
toggleThemeToOled ==
    /\ theme' = "oled"
    /\ localStorage' = ThemeEffect(localStorage, theme')
    /\ lastOp' = OtherOp
    /\ UNCHANGED << persistentState, lastWrite, faultsLeft, isTopicsLoading, error,
                    chapterContentView, chapterUnitTest, requests, topicRequests,
                    callCount, fetchCount, chat, chatStream, unitTestRequests,
                    unitTestCount >>
    /\ UNCHANGED componentVars

toggleTheme ==
    /\ theme' = ToggledTheme(theme)
    /\ localStorage' = ThemeEffect(localStorage, theme')
    /\ lastOp' = OtherOp
    /\ UNCHANGED << persistentState, lastWrite, faultsLeft, isTopicsLoading, error,
                    chapterContentView, chapterUnitTest, requests, topicRequests,
                    callCount, fetchCount, chat, chatStream, unitTestRequests,
                    unitTestCount >>
    /\ UNCHANGED componentVars

-----------------------------------------------------------------------------
(* The intro animation *)

\* introPhase !== 'hidden' && <IntroAnimation phase={introPhase} />
IntroRendered(phase) == phase # "hidden"

\* logoVisible={introPhase === 'fade' || introPhase === 'hidden'}
logoVisible(phase) == phase = "fade" \/ phase = "hidden"

AppUnchanged ==
    UNCHANGED << persistentState, isTopicsLoading, error, chapterContentView,
                 chapterUnitTest, localStorage, requests, topicRequests,
                 callCount, fetchCount, theme, chat, chatStream,
                 unitTestRequests, unitTestCount, faultsLeft, lastWrite >>

\* Mutant of introTimerFired: the timeouts run in any order.
introTimerFiredInAnyOrder(timer) ==
    /\ timer \in introTimers
    /\ introPhase' = timer.phase
    /\ introTimers' = introTimers \ {timer}
    /\ lastOp' = OtherOp
    /\ AppUnchanged
    /\ UNCHANGED << feedbackVars, narrationVars >>

\* The callback of a timeout of the intro effect runs.  The timeouts were
\* set in one task, so the one with the shortest delay of those pending is
\* the next to run.
introTimerFired(timer) ==
    /\ timer \in introTimers
    /\ \A other \in introTimers : timer.delay <= other.delay
    /\ introPhase' = timer.phase
    /\ introTimers' = introTimers \ {timer}
    /\ lastOp' = OtherOp
    /\ AppUnchanged
    /\ UNCHANGED << feedbackVars, narrationVars >>

-----------------------------------------------------------------------------
(* The chat *)

\* message.trim()
Trim(message) == IF message = " " THEN "" ELSE message

\* !message.trim()
IsBlank(message) == Trim(message) = ""

\* Mutant of handleSendMessage: the guard on isChatLoading is missing.
handleSendMessageWhileLoading(message) ==
    /\ chat.isReady
    /\ IF chat.session = {} \/ IsBlank(message)
       THEN UNCHANGED << chat, chatStream >>
       ELSE /\ Len(chat.history) + 2 <= MaxHistoryLen
            /\ chat' = [chat EXCEPT !.isLoading = TRUE,
                                    !.history = @ \o <<Message("user", <<message>>),
                                                       Message("model", << >>)>>]
            /\ chatStream' = chatStream \cup {[session |-> chat.session, chunks |-> 0]}
    /\ NoCommit
    /\ lastOp' = OtherOp
    /\ UNCHANGED << isTopicsLoading, error, chapterContentView, chapterUnitTest,
                    requests, topicRequests, callCount, fetchCount, theme,
                    unitTestRequests, unitTestCount >>
    /\ UNCHANGED componentVars

\* The chat box is rendered while the chat is ready.
handleSendMessage(message) ==
    /\ chat.isReady
    /\ IF chat.session = {} \/ chat.isLoading \/ IsBlank(message)
       THEN UNCHANGED << chat, chatStream >>
       ELSE /\ Len(chat.history) + 2 <= MaxHistoryLen
            /\ chat' = [chat EXCEPT !.isLoading = TRUE,
                                    !.history = @ \o <<Message("user", <<message>>),
                                                       Message("model", << >>)>>]
            /\ chatStream' = chatStream \cup {[session |-> chat.session, chunks |-> 0]}
    /\ NoCommit
    /\ lastOp' = OtherOp
    /\ UNCHANGED << isTopicsLoading, error, chapterContentView, chapterUnitTest,
                    requests, topicRequests, callCount, fetchCount, theme,
                    unitTestRequests, unitTestCount >>
    /\ UNCHANGED componentVars

\* What the catch block of handleSendMessage did, with the value caught.
StreamFailedOp(failure) ==
    [op |-> "streamFailed", topic |-> NULL, kind |-> NULL, called |-> FALSE,
     before |-> NULL, failure |-> failure]

\* One chunk of the stream.  The updater appends a non-empty text to the last
\* message of the history when that message is the model's; on an empty
\* history it dereferences undefined, and the render that runs it fails with
\* nothing to catch it: the application is gone until the page is reloaded.
chatStreamChunk(text) ==
    /\ \E stream \in chatStream :
           /\ stream.chunks < MaxChunks
           /\ chatStream' = (chatStream \ {stream})
                                 \cup {[stream EXCEPT !.chunks = @ + 1]}
    /\ LET n == Len(chat.history)
       IN  chat' = IF text = "" THEN chat
                   ELSE IF n = 0 THEN [chat EXCEPT !.crashed = TRUE]
                   ELSE IF chat.history[n].role = "model"
                   THEN [chat EXCEPT !.history[n].parts = @ \o <<text>>]
                   ELSE chat
    /\ NoCommit
    /\ lastOp' = OtherOp
    /\ UNCHANGED << isTopicsLoading, error, chapterContentView, chapterUnitTest,
                    requests, topicRequests, callCount, fetchCount, theme,
                    unitTestRequests, unitTestCount >>
    /\ UNCHANGED componentVars

\* The stream (or the call that opens it) fails: the catch block replaces
\* the last message (on an empty history the assignment to index -1 adds no
\* element), then the finally block clears isChatLoading.
chatStreamFailed(failure) ==
    /\ \E stream \in chatStream : chatStream' = chatStream \ {stream}
    /\ LET n == Len(chat.history)
           errorText == IF failure.isError
                        THEN <<"Sorry, an error occurred: ", failure.message>>
                        ELSE <<"Sorry, I couldn't get a response.">>
       IN  chat' = [chat EXCEPT !.isLoading = FALSE,
                                !.history = IF n = 0 THEN @
                                            ELSE [@ EXCEPT ![n] = Message("model", errorText)]]
    /\ NoCommit
    /\ lastOp' = StreamFailedOp(failure)
    /\ UNCHANGED << isTopicsLoading, error, chapterContentView, chapterUnitTest,
                    requests, topicRequests, callCount, fetchCount, theme,
                    unitTestRequests, unitTestCount >>
    /\ UNCHANGED componentVars

\* The stream ends: the finally block clears isChatLoading.
chatStreamEnded ==
    /\ \E stream \in chatStream : chatStream' = chatStream \ {stream}
    /\ chat' = [chat EXCEPT !.isLoading = FALSE]
    /\ NoCommit
    /\ lastOp' = OtherOp
    /\ UNCHANGED << isTopicsLoading, error, chapterContentView, chapterUnitTest,
                    requests, topicRequests, callCount, fetchCount, theme,
                    unitTestRequests, unitTestCount >>
    /\ UNCHANGED componentVars

-----------------------------------------------------------------------------
(* The feedback form of the footer *)

\* What the user types into the name and feedback fields.
FeedbackTexts == {"", " ", "hi"}

\* The options of the class select: STANDARDS
ClassOptions == {FirstStandard, "standard2"}

\* disabled={!name.trim() || !message.trim() || status === 'submitting'}
SubmitDisabled(form) ==
    \/ Trim(form.name) = ""
    \/ Trim(form.message) = ""
    \/ form.status = "submitting"

\* The form is rendered, and its fields are enabled.
FormEnabled ==
    /\ isModalOpen
    /\ feedback.status \notin {"success", "submitting"}

\* The effect on [initialStandard, isOpen], isOpen having changed.
OpenEffect(form, isOpen) ==
    IF isOpen THEN EmptyForm(persistentState)
    ELSE [form EXCEPT !.studentClass = InitialClass(persistentState)]

\* The Share Feedback button of the footer
openModal ==
    /\ ~isModalOpen
    /\ isModalOpen' = TRUE
    /\ feedback' = OpenEffect(feedback, TRUE)
    /\ lastOp' = OtherOp
    /\ AppUnchanged
    /\ UNCHANGED << feedbackPosts, postCount, closeTimers >>
    /\ UNCHANGED << introVars, narrationVars >>

\* onClose: the close button, a click on the backdrop or the Escape key
onClose ==
    /\ isModalOpen
    /\ isModalOpen' = FALSE
    /\ feedback' = OpenEffect(feedback, FALSE)
    /\ lastOp' = OtherOp
    /\ AppUnchanged
    /\ UNCHANGED << feedbackPosts, postCount, closeTimers >>
    /\ UNCHANGED << introVars, narrationVars >>

setName(value) ==
    /\ FormEnabled
    /\ feedback' = [feedback EXCEPT !.name = value]
    /\ lastOp' = OtherOp
    /\ AppUnchanged
    /\ UNCHANGED << isModalOpen, feedbackPosts, postCount, closeTimers >>
    /\ UNCHANGED << introVars, narrationVars >>

setStudentClass(value) ==
    /\ FormEnabled
    /\ feedback' = [feedback EXCEPT !.studentClass = value]
    /\ lastOp' = OtherOp
    /\ AppUnchanged
    /\ UNCHANGED << isModalOpen, feedbackPosts, postCount, closeTimers >>
    /\ UNCHANGED << introVars, narrationVars >>

setMessage(value) ==
    /\ FormEnabled
    /\ feedback' = [feedback EXCEPT !.message = value]
    /\ lastOp' = OtherOp
    /\ AppUnchanged
    /\ UNCHANGED << isModalOpen, feedbackPosts, postCount, closeTimers >>
    /\ UNCHANGED << introVars, narrationVars >>

\* handleSubmit up to its await; the submit button is not disabled.
handleSubmit ==
    /\ isModalOpen
    /\ feedback.status # "success"
    /\ ~SubmitDisabled(feedback)
    /\ postCount < MaxPosts
    /\ feedback' = [feedback EXCEPT !.status = "submitting"]
    /\ feedbackPosts' = feedbackPosts \cup
           {[body |-> [name |-> feedback.name, class |-> feedback.studentClass,
                       message |-> feedback.message],
             call |-> postCount + 1]}
    /\ postCount' = postCount + 1
    /\ lastOp' = OtherOp
    /\ AppUnchanged
    /\ UNCHANGED << isModalOpen, closeTimers >>
    /\ UNCHANGED << introVars, narrationVars >>

\* handleSubmit after its await, fetch having resolved with a response
feedbackResolved(post, ok) ==
    /\ post \in feedbackPosts
    /\ feedbackPosts' = feedbackPosts \ {post}
    /\ feedback' = [feedback EXCEPT !.status = IF ok THEN "success" ELSE "error"]
    /\ closeTimers' = IF ok THEN closeTimers + 1 ELSE closeTimers
    /\ lastOp' = OtherOp
    /\ AppUnchanged
    /\ UNCHANGED << isModalOpen, postCount >>
    /\ UNCHANGED << introVars, narrationVars >>

\* handleSubmit after its await, fetch having rejected
feedbackRejected(post) ==
    /\ post \in feedbackPosts
    /\ feedbackPosts' = feedbackPosts \ {post}
    /\ feedback' = [feedback EXCEPT !.status = "error"]
    /\ lastOp' = OtherOp
    /\ AppUnchanged
    /\ UNCHANGED << isModalOpen, postCount, closeTimers >>
    /\ UNCHANGED << introVars, narrationVars >>

\* The timeout set after a success runs: onClose()
closeTimerFired ==
    /\ closeTimers > 0
    /\ closeTimers' = closeTimers - 1
    /\ isModalOpen' = FALSE
    /\ feedback' = IF isModalOpen THEN OpenEffect(feedback, FALSE) ELSE feedback
    /\ lastOp' = OtherOp
    /\ AppUnchanged
    /\ UNCHANGED << feedbackPosts, postCount >>
    /\ UNCHANGED << introVars, narrationVars >>

-----------------------------------------------------------------------------
(* The card of the explanation and its narration (AnswerCard)             *)

PlaybackStates == {"idle", "loading", "playing", "paused"}

\* What generateSpeechFromScript resolves with.
SpeechResults == {"", "audio"}

\* The state a new AudioContext may be in: running, or suspended until a
\* user gesture resumes it.
NewContextStates == {"running", "suspended"}

\* content[topic]?.explanationAudio?.data || ...?.isLoading, of the entry
\* the card shows
AudioCachedOrLoading ==
    \E entry \in audioState :
        entry.isLoading \/ (HasField(entry, "data") /\ entry.data # "")

\* The effect on [audioState], its playback state being `state` when it
\* runs: loading for a loading entry, idle for a failed one, and a run of
\* processAudio up to its await for one with data.
AudioEffect(entries, state) ==
    IF \E entry \in entries : entry.isLoading
    THEN /\ playbackState' = "loading"
         /\ UNCHANGED << audioContext, cardAwaits >>
    ELSE IF \E entry \in entries : HasField(entry, "error") /\ entry.error # ""
    THEN /\ playbackState' = "idle"
         /\ UNCHANGED << audioContext, cardAwaits >>
    ELSE IF \E entry \in entries : HasField(entry, "data") /\ entry.data # ""
    THEN /\ playbackState' = state
         /\ IF audioContext \in {"none", "closed"}
            THEN audioContext' \in NewContextStates
            ELSE UNCHANGED audioContext
         /\ cardAwaits' = cardAwaits \cup {"decode"}
    ELSE /\ playbackState' = state
         /\ UNCHANGED << audioContext, cardAwaits >>

\* The explanation is shown: a card is mounted and its effects run.
AnswerCardMount ==
    /\ playbackState = NULL
    /\ AudioEffect(audioState, "idle")
    /\ lastOp' = OtherOp
    /\ AppUnchanged
    /\ UNCHANGED << audioState, audioBuffer, sourceNode, playingSources,
                    speechCalls >>
    /\ UNCHANGED << introVars, feedbackVars >>

\* The card is unmounted (another view or topic is shown); the cleanup
\* stops the source node and closes the context.  What the card awaited
\* settles without effect.
AnswerCardUnmount ==
    /\ playbackState # NULL
    /\ playbackState' = NULL
    /\ playingSources' = IF sourceNode THEN playingSources - 1 ELSE playingSources
    /\ sourceNode' = FALSE
    /\ audioContext' = "none"
    /\ audioBuffer' = FALSE
    /\ cardAwaits' = {}
    /\ lastOp' = OtherOp
    /\ AppUnchanged
    /\ UNCHANGED << audioState, speechCalls >>
    /\ UNCHANGED << introVars, feedbackVars >>

\* handlePlayPauseClick; the button is disabled in the loading state.
handlePlayPauseClick ==
    /\ playbackState \in PlaybackStates \ {"loading"}
    /\ IF playbackState = "playing" /\ audioContext = "running"
       THEN /\ cardAwaits' = cardAwaits \cup {"suspend"}
            /\ UNCHANGED << playbackState, audioState, audioContext, audioBuffer,
                            sourceNode, playingSources, speechCalls >>
       ELSE IF playbackState = "paused" /\ audioContext = "suspended"
       THEN /\ cardAwaits' = cardAwaits \cup {"resume"}
            /\ UNCHANGED << playbackState, audioState, audioContext, audioBuffer,
                            sourceNode, playingSources, speechCalls >>
       ELSE IF playbackState = "idle" /\ audioBuffer
       THEN /\ IF audioContext \in {"none", "closed"}
               THEN audioContext' \in NewContextStates
               ELSE UNCHANGED audioContext
            /\ cardAwaits' = IF audioContext' = "suspended"
                             THEN cardAwaits \cup {"wake"} ELSE cardAwaits
            /\ playingSources' = (IF sourceNode THEN playingSources - 1
                                  ELSE playingSources) + 1
            /\ sourceNode' = TRUE
            /\ playbackState' = "playing"
            /\ UNCHANGED << audioState, audioBuffer, speechCalls >>
       ELSE IF playbackState = "idle" /\ ~AudioCachedOrLoading
       THEN /\ audioState' = {LoadingEntry}
            /\ speechCalls' = speechCalls + 1
            /\ AudioEffect(audioState', playbackState)
            /\ UNCHANGED << audioBuffer, sourceNode, playingSources >>
       ELSE UNCHANGED narrationVars
    /\ lastOp' = OtherOp
    /\ AppUnchanged
    /\ UNCHANGED << introVars, feedbackVars >>

\* context.suspend() has resolved: setPlaybackState('paused')
suspendResolved ==
    /\ "suspend" \in cardAwaits
    /\ cardAwaits' = cardAwaits \ {"suspend"}
    /\ audioContext' = "suspended"
    /\ playbackState' = "paused"
    /\ lastOp' = OtherOp
    /\ AppUnchanged
    /\ UNCHANGED << audioState, audioBuffer, sourceNode, playingSources,
                    speechCalls >>
    /\ UNCHANGED << introVars, feedbackVars >>

\* context.resume() of the resume branch has resolved: setPlaybackState('playing')
resumeResolved ==
    /\ "resume" \in cardAwaits
    /\ cardAwaits' = cardAwaits \ {"resume"}
    /\ audioContext' = "running"
    /\ playbackState' = "playing"
    /\ lastOp' = OtherOp
    /\ AppUnchanged
    /\ UNCHANGED << audioState, audioBuffer, sourceNode, playingSources,
                    speechCalls >>
    /\ UNCHANGED << introVars, feedbackVars >>

\* liveContext.resume() of the play branch has resolved; nothing awaits it.
wakeResolved ==
    /\ "wake" \in cardAwaits
    /\ cardAwaits' = cardAwaits \ {"wake"}
    /\ audioContext' = "running"
    /\ lastOp' = OtherOp
    /\ AppUnchanged
    /\ UNCHANGED << playbackState, audioState, audioBuffer, sourceNode,
                    playingSources, speechCalls >>
    /\ UNCHANGED << introVars, feedbackVars >>

\* source.onended: the buffer has been played to its end, which takes a
\* running context.
onended ==
    /\ sourceNode
    /\ audioContext = "running"
    /\ playbackState' = "idle"
    /\ sourceNode' = FALSE
    /\ playingSources' = playingSources - 1
    /\ lastOp' = OtherOp
    /\ AppUnchanged
    /\ UNCHANGED << audioState, audioContext, audioBuffer, cardAwaits,
                    speechCalls >>
    /\ UNCHANGED << introVars, feedbackVars >>

\* processAudio after its await: the buffer is kept, or decoding has thrown
processAudioSettled(decoded) ==
    /\ "decode" \in cardAwaits
    /\ cardAwaits' = cardAwaits \ {"decode"}
    /\ audioBuffer' = IF decoded THEN TRUE ELSE audioBuffer
    /\ playbackState' = "idle"
    /\ lastOp' = OtherOp
    /\ AppUnchanged
    /\ UNCHANGED << audioState, audioContext, sourceNode, playingSources,
                    speechCalls >>
    /\ UNCHANGED << introVars, feedbackVars >>

\* handleGenerateExplanationAudio after its await, for the entry of the
\* card: the entry is set, and the effect of a mounted card runs.
speechSettled(entry) ==
    /\ speechCalls > 0
    /\ speechCalls' = speechCalls - 1
    /\ audioState' = {entry}
    /\ IF playbackState # NULL
       THEN AudioEffect(audioState', playbackState)
       ELSE UNCHANGED << playbackState, audioContext, cardAwaits >>
    /\ lastOp' = OtherOp
    /\ AppUnchanged
    /\ UNCHANGED << audioBuffer, sourceNode, playingSources >>
    /\ UNCHANGED << introVars, feedbackVars >>

-----------------------------------------------------------------------------
(* The specification *)

Next ==
    \/ \E subject \in Subjects, standard \in Standards :
           handleCourseSelect(subject, standard)
    \/ \E chapter \in Chapters : handleChapterSelect(chapter)
    \/ onLoadMore
    \/ \E chapter \in Chapters, newTopics \in TopicLists :
           fetchTopicsResolved(chapter, newTopics)
    \/ \E chapter \in Chapters, failure \in Failures :
           fetchTopicsRejected(chapter, failure)
    \/ \E topic \in Topics : handleTopicSelect(topic)
    \/ \E topic \in Topics : handleGenerateAnswer(topic)
    \/ \E topic \in Topics : handleGenerateVisualPrompt(topic)
    \/ \E topic \in Topics : handleGenerateRealWorldExample(topic)
    \/ \E topic \in Topics : handleGenerateMCQs(topic)
    \/ \E topic \in Topics : handleGenerateExplanationAudio(topic)
    \/ \E request \in requests : \E data \in GeneratorResults(request.kind) :
           generatorResolved(request, data)
    \/ \E request \in requests, failure \in Failures :
           generatorRejected(request, failure)
    \/ resetStateForNewSelection

Spec == Init /\ [][Next]_vars

-----------------------------------------------------------------------------
(* The persistence slice: a browser whose storage may throw on up to        *)
(* MaxWriteFailures writes (the write of the mount effect included), with   *)
(* the explanation and narration handlers as the writers of the store.      *)

InitFaulty ==
    /\ persistentState = defaultState
    /\ isTopicsLoading = EmptyObject
    /\ error = NULL
    /\ chapterContentView = "topics"
    /\ chapterUnitTest = [isLoading |-> FALSE]
    /\ \E outcome \in WriteOutcomes :
           /\ outcome # "ok" => MaxWriteFailures > 0
           /\ localStorage = ThemeEffect(PersistEffect(defaultState, EmptyObject,
                                                      outcome), "light")
           /\ lastWrite = outcome
           /\ faultsLeft = IF outcome = "ok" THEN MaxWriteFailures
                           ELSE MaxWriteFailures - 1
    /\ requests = {}
    /\ topicRequests = {}
    /\ callCount = 0
    /\ fetchCount = 0
    /\ theme = "light"
    /\ chat = ChatEffect(defaultState, initialChat)
    /\ chatStream = {}
    /\ unitTestRequests = {}
    /\ unitTestCount = 0
    /\ lastOp = OtherOp
    /\ ComponentsInit

NextFaulty ==
    \/ \E subject \in Subjects, standard \in Standards :
           handleCourseSelect(subject, standard)
    \/ \E chapter \in Chapters : handleChapterSelect(chapter)
    \/ \E chapter \in Chapters, newTopics \in TopicLists :
           fetchTopicsResolved(chapter, newTopics)
    \/ \E topic \in Topics : handleTopicSelect(topic)
    \/ \E topic \in Topics : handleGenerateAnswer(topic)
    \/ \E topic \in Topics : handleGenerateExplanationAudio(topic)
    \/ \E request \in requests : \E data \in GeneratorResults(request.kind) :
           generatorResolved(request, data)
    \/ \E request \in requests, failure \in Failures :
           generatorRejected(request, failure)
    \/ resetStateForNewSelection

SpecFaulty == InitFaulty /\ [][NextFaulty]_vars

-----------------------------------------------------------------------------
(* Startup: the page is loaded, or loaded again *)

\* The App is mounted: no render has failed.
Running == ~chat.crashed

\* A state object with content and activeView but without topics and
\* noMoreTopics.
StateWithoutTopicLists ==
    RemoveField(RemoveField(defaultState, "topics"), "noMoreTopics")

\* The texts found under the state key that the application did not write
\* itself: the empty text, a truncated text, the texts of null and of a
\* number, the text of an object without the collections and the text of
\* an object with some of them.
ForeignTexts ==
    { [kind |-> "empty"], [kind |-> "truncated"], [kind |-> "null"],
      [kind |-> "number"],
      [kind |-> "object", value |-> [subject |-> NULL, standard |-> NULL]],
      [kind |-> "object", value |-> StateWithoutTopicLists] }

\* What localStorage.getItem(APP_STATE_KEY) returns, null being "absent".
StoredText(store) ==
    IF HasField(store, APP_STATE_KEY) THEN store[APP_STATE_KEY]
    ELSE [kind |-> "absent"]

\* if (parsed.content && parsed.activeView): dereferencing null throws a
\* TypeError, a number has no such properties.
HasCollections(text) ==
    /\ text.kind = "object"
    /\ HasField(text.value, "content")
    /\ HasField(text.value, "activeView")

\* The try block of loadPersistentState throws.
LoadThrows(text) == ParseThrows(text) \/ text.kind = "null"

\* Mutant of loadPersistentState: a valid stored state is taken without
\* its topic selection.
loadPersistentStateDroppingSelection(store) ==
    LET text == StoredText(store)
    IN  IF text.kind \in {"absent", "empty"}
        THEN [state |-> defaultState, store |-> store, removed |-> FALSE]
        ELSE IF LoadThrows(text)
        THEN [state |-> defaultState, store |-> removeItem(store, APP_STATE_KEY),
              removed |-> TRUE]
        ELSE IF HasCollections(text)
        THEN [state |-> [JSONparse(text) EXCEPT !.selectedTopic = NULL],
              store |-> store, removed |-> FALSE]
        ELSE [state |-> defaultState, store |-> store, removed |-> FALSE]

\* loadPersistentState: the state it returns and the store it leaves.
loadPersistentState(store) ==
    LET text == StoredText(store)
    IN  IF text.kind \in {"absent", "empty"}
        THEN [state |-> defaultState, store |-> store, removed |-> FALSE]
        ELSE IF LoadThrows(text)
        THEN [state |-> defaultState, store |-> removeItem(store, APP_STATE_KEY),
              removed |-> TRUE]
        ELSE IF HasCollections(text)
        THEN [state |-> JSONparse(text), store |-> store, removed |-> FALSE]
        ELSE [state |-> defaultState, store |-> store, removed |-> FALSE]

\* savedTheme === 'oled' ? 'oled' : 'light'
loadTheme(store) ==
    IF HasField(store, THEME_KEY) /\ store[THEME_KEY] = "oled" THEN "oled" ELSE "light"

\* What localStorage.getItem('theme') returns, null being "absent".
StoredTheme(store) ==
    IF HasField(store, THEME_KEY) THEN store[THEME_KEY] ELSE NULL

\* What a load did: the text and the theme value it found, and whether it
\* removed the item.
LoadOp(store, removed) ==
    [op |-> "load", topic |-> NULL, kind |-> NULL, called |-> FALSE,
     before |-> NULL, stored |-> StoredText(store), removed |-> removed,
     savedTheme |-> StoredTheme(store)]

\* The state a mounted App starts from, the store being `store` when the
\* page is loaded: every awaited call of the page before is gone; the state
\* is loaded and the persist, theme and chat effects of the mount run.
Mount(store) ==
    LET loaded == loadPersistentState(store)
    IN  /\ Commit(loaded.state, ThemeEffect(loaded.store, loadTheme(store)))
        /\ theme' = loadTheme(store)
        /\ chat' = ChatEffect(loaded.state, initialChat)
        /\ lastOp' = LoadOp(store, loaded.removed)
        /\ isTopicsLoading' = EmptyObject
        /\ error' = NULL
        /\ chapterContentView' = "topics"
        /\ chapterUnitTest' = [isLoading |-> FALSE]
        /\ requests' = {}
        /\ topicRequests' = {}
        /\ unitTestRequests' = {}
        /\ chatStream' = {}
        /\ ComponentsMount

\* The user reloads the page.
reload ==
    /\ Mount(localStorage)
    /\ UNCHANGED << callCount, fetchCount, unitTestCount >>

\* The stores the first load of the page may find: nothing stored, or a
\* text the application did not write.
InitialStores ==
    {EmptyObject} \cup {setItem(EmptyObject, APP_STATE_KEY, text) : text \in ForeignTexts}

\* The reload slice: the page is loaded over any of the initial stores, the
\* user works with the explanation and narration handlers and reloads the
\* page at any moment.
InitReload ==
    \E store \in InitialStores :
        LET loaded == loadPersistentState(store)
        IN  /\ persistentState = loaded.state
            /\ localStorage = PersistEffect(loaded.state,
                                            ThemeEffect(loaded.store, loadTheme(store)),
                                            "ok")
            /\ lastWrite = "ok"
            /\ faultsLeft = 0
            /\ theme = loadTheme(store)
            /\ chat = ChatEffect(loaded.state, initialChat)
            /\ lastOp = LoadOp(store, loaded.removed)
            /\ isTopicsLoading = EmptyObject
            /\ error = NULL
            /\ chapterContentView = "topics"
            /\ chapterUnitTest = [isLoading |-> FALSE]
            /\ requests = {}
            /\ topicRequests = {}
            /\ unitTestRequests = {}
            /\ chatStream = {}
            /\ callCount = 0
            /\ fetchCount = 0
            /\ unitTestCount = 0
            /\ ComponentsInit

NextReload ==
    \/ Running /\ \E subject \in Subjects, standard \in Standards :
                      handleCourseSelect(subject, standard)
    \/ Running /\ \E chapter \in Chapters : handleChapterSelect(chapter)
    \/ Running /\ \E chapter \in Chapters, newTopics \in TopicLists :
                      fetchTopicsResolved(chapter, newTopics)
    \/ Running /\ \E topic \in Topics : handleTopicSelect(topic)
    \/ Running /\ \E topic \in Topics : handleGenerateAnswer(topic)
    \/ Running /\ \E topic \in Topics : handleGenerateExplanationAudio(topic)
    \/ Running /\ \E request \in requests :
                      \E data \in GeneratorResults(request.kind) :
                          generatorResolved(request, data)
    \/ Running /\ \E request \in requests, failure \in Failures :
                      generatorRejected(request, failure)
    \/ Running /\ resetStateForNewSelection
    \/ reload

SpecReload == InitReload /\ [][NextReload]_vars

-----------------------------------------------------------------------------
(* The progress slice: the explanation and quiz handlers, with a generator  *)
(* that answers every call, by a result or by a failure.                    *)

\* The continuation of the handler that made generator call `id`.
Settle(id) ==
    \E request \in requests :
        /\ request.id = id
        /\ \/ \E data \in GeneratorResults(request.kind) :
                  generatorResolved(request, data)
           \/ \E failure \in Failures : generatorRejected(request, failure)

NextLive ==
    \/ \E subject \in Subjects, standard \in Standards :
           handleCourseSelect(subject, standard)
    \/ \E chapter \in Chapters : handleChapterSelect(chapter)
    \/ \E chapter \in Chapters, newTopics \in TopicLists :
           fetchTopicsResolved(chapter, newTopics)
    \/ \E topic \in Topics : handleTopicSelect(topic)
    \/ \E topic \in Topics : handleGenerateAnswer(topic)
    \/ \E topic \in Topics : handleGenerateMCQs(topic)
    \/ \E id \in 1..MaxCalls : Settle(id)
    \/ resetStateForNewSelection

SpecLive ==
    /\ Init
    /\ [][NextLive]_vars
    /\ \A id \in 1..MaxCalls : WF_vars(Settle(id))

-----------------------------------------------------------------------------
(* The session slice: a user who stays with one chapter and one topic and   *)
(* uses the explanation handler next to the unit test (requested once),    *)
(* the chat and the theme toggle.  Once a render has failed nothing is      *)
(* left to act on.                                                          *)

SessionChapters == {"c1"}
SessionTopics == {"t1"}
SessionUnitTests == 1

NextSession ==
    \/ Running /\ \E subject \in Subjects, standard \in Standards :
                      handleCourseSelect(subject, standard)
    \/ Running /\ \E chapter \in SessionChapters : handleChapterSelect(chapter)
    \/ Running /\ \E chapter \in Chapters, newTopics \in TopicLists :
                      fetchTopicsResolved(chapter, newTopics)
    \/ Running /\ \E chapter \in Chapters, failure \in Failures :
                      fetchTopicsRejected(chapter, failure)
    \/ Running /\ \E topic \in SessionTopics : handleTopicSelect(topic)
    \/ Running /\ \E topic \in Topics : handleGenerateAnswer(topic)
    \/ Running /\ \E request \in requests :
                      \E data \in GeneratorResults(request.kind) :
                          generatorResolved(request, data)
    \/ Running /\ \E request \in requests, failure \in Failures :
                      generatorRejected(request, failure)
    \/ Running /\ resetStateForNewSelection
    \/ Running /\ unitTestCount < SessionUnitTests /\ handleGenerateChapterUnitTest
    \/ Running /\ \E request \in unitTestRequests, test \in UnitTests :
                      unitTestResolved(request, test)
    \/ Running /\ \E request \in unitTestRequests, failure \in Failures :
                      unitTestRejected(request, failure)
    \/ Running /\ toggleTheme
    \/ Running /\ \E message \in ChatInputs : handleSendMessage(message)
    \/ Running /\ \E text \in ChunkTexts : chatStreamChunk(text)
    \/ Running /\ \E failure \in Failures : chatStreamFailed(failure)
    \/ Running /\ chatStreamEnded

SpecSession == Init /\ [][NextSession]_vars

-----------------------------------------------------------------------------
(* The unit test slice: a user who moves between the chapters and their     *)
(* topics and requests the unit test of the chapter.                        *)

NextUnitTest ==
    \/ \E subject \in Subjects, standard \in Standards :
           handleCourseSelect(subject, standard)
    \/ \E chapter \in Chapters : handleChapterSelect(chapter)
    \/ \E chapter \in Chapters, newTopics \in TopicLists :
           fetchTopicsResolved(chapter, newTopics)
    \/ \E chapter \in Chapters, failure \in Failures :
           fetchTopicsRejected(chapter, failure)
    \/ \E topic \in Topics : handleTopicSelect(topic)
    \/ handleGenerateChapterUnitTest
    \/ \E request \in unitTestRequests, test \in UnitTests :
           unitTestResolved(request, test)
    \/ \E request \in unitTestRequests, failure \in Failures :
           unitTestRejected(request, failure)
    \/ resetStateForNewSelection

SpecUnitTest == Init /\ [][NextUnitTest]_vars

-----------------------------------------------------------------------------
(* The topic-list slice: the user selects courses and chapters, asks for    *)
(* more topics and resets the course, and getChapterTopics resolves with    *)
(* batches of none, one or two topics, so that a batch arrives at a chapter *)
(* that already has a list.                                                 *)

\* What getChapterTopics resolves with in this slice.
TopicBatches == TopicLists \cup {<<"t1">>, <<"t2">>}

NextTopics ==
    \/ \E subject \in Subjects, standard \in Standards :
           handleCourseSelect(subject, standard)
    \/ \E chapter \in Chapters : handleChapterSelect(chapter)
    \/ onLoadMore
    \/ \E chapter \in Chapters, newTopics \in TopicBatches :
           fetchTopicsResolved(chapter, newTopics)
    \/ \E chapter \in Chapters, failure \in Failures :
           fetchTopicsRejected(chapter, failure)
    \/ \E topic \in Topics : handleTopicSelect(topic)
    \/ resetStateForNewSelection

SpecTopics == Init /\ [][NextTopics]_vars

-----------------------------------------------------------------------------
(* The theme slice: the page is loaded over a store that holds any theme    *)
(* value or none; the user toggles the theme, selects and resets courses    *)
(* and reloads the page.                                                    *)

\* The theme values the first load may find: the two the application
\* writes and two it does not.
StoredThemes == Themes \cup {"dark", "OLED"}

ThemeStores ==
    {EmptyObject} \cup {setItem(EmptyObject, THEME_KEY, value) : value \in StoredThemes}

InitTheme ==
    \E store \in ThemeStores :
        LET loaded == loadPersistentState(store)
        IN  /\ persistentState = loaded.state
            /\ localStorage = PersistEffect(loaded.state,
                                            ThemeEffect(loaded.store, loadTheme(store)),
                                            "ok")
            /\ lastWrite = "ok"
            /\ faultsLeft = 0
            /\ theme = loadTheme(store)
            /\ chat = ChatEffect(loaded.state, initialChat)
            /\ lastOp = LoadOp(store, loaded.removed)
            /\ isTopicsLoading = EmptyObject
            /\ error = NULL
            /\ chapterContentView = "topics"
            /\ chapterUnitTest = [isLoading |-> FALSE]
            /\ requests = {}
            /\ topicRequests = {}
            /\ unitTestRequests = {}
            /\ chatStream = {}
            /\ callCount = 0
            /\ fetchCount = 0
            /\ unitTestCount = 0
            /\ ComponentsInit

NextTheme ==
    \/ \E subject \in Subjects, standard \in Standards :
           handleCourseSelect(subject, standard)
    \/ \E chapter \in Chapters : handleChapterSelect(chapter)
    \/ \E chapter \in Chapters, newTopics \in TopicLists :
           fetchTopicsResolved(chapter, newTopics)
    \/ \E topic \in Topics : handleTopicSelect(topic)
    \/ toggleTheme
    \/ resetStateForNewSelection
    \/ reload

SpecTheme == InitTheme /\ [][NextTheme]_vars

-----------------------------------------------------------------------------
(* The intro slice: one life of the page from its mount, with the user      *)
(* selecting a course, chapters and topics and toggling the theme while     *)
(* the timeouts of the intro effect run.                                    *)

NextIntro ==
    \/ \E timer \in IntroTimers : introTimerFired(timer)
    \/ \E subject \in Subjects, standard \in Standards :
           handleCourseSelect(subject, standard)
    \/ \E chapter \in Chapters : handleChapterSelect(chapter)
    \/ \E chapter \in Chapters, newTopics \in TopicLists :
           fetchTopicsResolved(chapter, newTopics)
    \/ \E topic \in Topics : handleTopicSelect(topic)
    \/ toggleTheme
    \/ resetStateForNewSelection

\* A timeout that is pending runs in the end.
SpecIntro ==
    /\ Init
    /\ [][NextIntro]_vars
    /\ WF_vars(\E timer \in IntroTimers : introTimerFired(timer))

-----------------------------------------------------------------------------
(* The feedback slice: the user opens and closes the feedback form, fills   *)
(* it in and submits it, and the endpoint answers or fails; no course is    *)
(* selected meanwhile.                                                      *)

NextFeedback ==
    \/ openModal
    \/ onClose
    \/ \E value \in FeedbackTexts : setName(value)
    \/ \E value \in ClassOptions : setStudentClass(value)
    \/ \E value \in FeedbackTexts : setMessage(value)
    \/ handleSubmit
    \/ \E post \in feedbackPosts, ok \in BOOLEAN : feedbackResolved(post, ok)
    \/ \E post \in feedbackPosts : feedbackRejected(post)
    \/ closeTimerFired

SpecFeedback == Init /\ [][NextFeedback]_vars

-----------------------------------------------------------------------------
(* The narration slice: the explanation of one topic is shown and hidden,   *)
(* the user clicks the play button (and the theme toggle, while the intro   *)
(* runs), and the speech service, the decoder and the audio context answer  *)
(* in any order.                                                            *)

NextNarration ==
    \/ \E timer \in IntroTimers : introTimerFired(timer)
    \/ toggleTheme
    \/ AnswerCardMount
    \/ AnswerCardUnmount
    \/ handlePlayPauseClick
    \/ suspendResolved
    \/ resumeResolved
    \/ wakeResolved
    \/ onended
    \/ \E decoded \in BOOLEAN : processAudioSettled(decoded)
    \/ \E data \in SpeechResults : speechSettled(DataEntry(data))
    \/ \E failure \in Failures :
           speechSettled(ErrorEntry(ErrorText("explanationAudio", failure)))

SpecNarration == Init /\ [][NextNarration]_vars

-----------------------------------------------------------------------------
(* Vocabulary of the properties *)

\* The outstanding generator requests of one (topic, kind) pair.
RequestsFor(topic, kind) ==
    {r \in requests : r.topic = topic /\ r.kind = kind}

\* The step is a run of the generation handler of `kind` on `topic`.
GenerateStep(topic, kind) ==
    /\ lastOp'.op = "generate"
    /\ lastOp'.topic = topic
    /\ lastOp'.kind = kind

\* The step is the continuation of a generation handler: its request settles.
SettleStep(request) ==
    /\ lastOp'.op \in {"resolved", "rejected"}
    /\ request \in requests
    /\ requests' = requests \ {request}

-----------------------------------------------------------------------------
(* C1..C10: the request state machine and the persist effect *)

\* C1: in every reachable state each (topic, kind) pair has at most one
\* outstanding generator request, whatever the interleaving of generate
\* actions, topic and chapter switches, course reset and responses.
C1_AtMostOneOutstanding ==
    \A topic \in Topics, kind \in Kinds :
        Cardinality(RequestsFor(topic, kind)) <= 1

\* C2: a generation action invoked while an earlier request of the same
\* (topic, kind) has not resolved makes no generator call, so the request a
\* handler has just issued is the only one outstanding for its pair.
C2_InFlightDedup ==
    (lastOp.op = "generate" /\ lastOp.called)
        => RequestsFor(lastOp.topic, lastOp.kind) \subseteq
               {r \in requests : r.id = callCount}

\* C3: once the entry of (topic, kind) holds the data of a succeeded request,
\* whatever that data is, invoking the generation action again makes no
\* generator call and leaves the entry unchanged.
C3_IdempotentCacheHit ==
    [][\A topic \in Topics, kind \in Kinds :
          (/\ GenerateStep(topic, kind)
           /\ EntryStatus(persistentState.content, topic, kind) = "data")
          => /\ requests' = requests
             /\ EntryAt(persistentState'.content, topic, kind)
                    = EntryAt(persistentState.content, topic, kind)]_vars

\* C4: invoking the generation action on an entry that is
\* {isLoading: false, error} with no data is not suppressed by the dedup
\* rule: the entry becomes {isLoading: true}, the error gone, and one new
\* generator call is issued.  (The narration handler is invocable from the
\* explanation card only, that is with the explanation present.)
C4_RetryAfterFailure ==
    [][\A topic \in Topics, kind \in Kinds :
          (/\ GenerateStep(topic, kind)
           /\ EntryStatus(persistentState.content, topic, kind) = "error"
           /\ kind = "explanationAudio"
                  => HasTruthyData(persistentState.content, topic, "answer"))
          => /\ EntryAt(persistentState'.content, topic, kind) = {[isLoading |-> TRUE]}
             /\ \E r \in requests' \ requests :
                    /\ r.topic = topic
                    /\ r.kind = kind
                    /\ requests' = requests \cup {r}]_vars

C4_Witness ==
    /\ lastOp.op = "generate"
    /\ lastOp.before = "error"
    /\ lastOp.called
    /\ EntryStatus(persistentState.content, lastOp.topic, lastOp.kind) = "loading"

\* C5: every entry of the content store has at most one of data and error,
\* and an entry that is loading has neither.
C5_EntryWellFormed ==
    \A topic \in DOMAIN persistentState.content, kind \in Kinds :
        \A e \in EntryAt(persistentState.content, topic, kind) :
            /\ ~(HasField(e, "data") /\ HasField(e, "error"))
            /\ e.isLoading => ~HasField(e, "data") /\ ~HasField(e, "error")

\* the store holds an entry with data next to one with an error
C5_Witness ==
    \E topic \in Topics :
        {"data", "error"} \subseteq
            {EntryStatus(persistentState.content, topic, kind) : kind \in Kinds}

\* C6: starting, completing or failing a request of (topic, kind) changes
\* the entry of that pair only: the entries of the other kinds of the topic
\* and all entries of the other topics stay exactly as they were.
C6_OtherEntriesUntouched ==
    [][lastOp'.op \in {"generate", "resolved", "rejected"}
          => \A topic \in Topics, kind \in Kinds :
                 (topic # lastOp'.topic \/ kind # lastOp'.kind)
                 => EntryAt(persistentState'.content, topic, kind)
                        = EntryAt(persistentState.content, topic, kind)]_vars

\* a failure arrives while another request is in flight
C6_Witness ==
    /\ lastOp.op = "rejected"
    /\ EntryStatus(persistentState.content, lastOp.topic, lastOp.kind) = "error"
    /\ \E r \in requests :
           /\ (r.topic # lastOp.topic \/ r.kind # lastOp.kind)
           /\ EntryStatus(persistentState.content, r.topic, r.kind) = "loading"

\* C7: selecting a topic or a chapter cancels no request (only the
\* generation handlers and their continuations change the outstanding
\* requests), and a request that settles writes its result to the entry of
\* the topic it was issued for and changes no other topic's bundle.
C7_SettlesIntoOwnTopic ==
    [][/\ requests' # requests
           => lastOp'.op \in {"generate", "resolved", "rejected"}
       /\ \A request \in requests :
              SettleStep(request)
              => /\ EntryStatus(persistentState'.content, request.topic, request.kind)
                        = (IF lastOp'.op = "resolved" THEN "data" ELSE "error")
                 /\ \A topic \in Topics \ {request.topic} :
                        /\ HasField(persistentState'.content, topic)
                               <=> HasField(persistentState.content, topic)
                        /\ HasField(persistentState.content, topic)
                               => persistentState'.content[topic]
                                      = persistentState.content[topic]]_vars

\* a request resolves after the user went on to another topic
C7_Witness ==
    /\ lastOp.op = "resolved"
    /\ persistentState.selectedTopic \in Topics \ {lastOp.topic}
    /\ HasField(persistentState.content, lastOp.topic)
    /\ HasField(persistentState.content[lastOp.topic], "question")
    /\ EntryStatus(persistentState.content, lastOp.topic, lastOp.kind) = "data"

\* C8: requesting narrated audio for a topic whose explanation entry has no
\* data (absent, loading or failed) calls nothing, leaves the audio entry as
\* it is and changes no other state.
C8_AudioPrecondition ==
    [][\A topic \in Topics :
          (/\ GenerateStep(topic, "explanationAudio")
           /\ EntryStatus(persistentState.content, topic, "answer") # "data")
          => /\ ~lastOp'.called
             /\ UNCHANGED << persistentState, isTopicsLoading, error,
                             chapterContentView, chapterUnitTest, localStorage,
                             requests, topicRequests, callCount, fetchCount,
                             theme, chat, chatStream, unitTestRequests,
                             unitTestCount >>]_vars

C8_Witness ==
    /\ lastOp.op = "generate"
    /\ lastOp.kind = "explanationAudio"
    /\ ~lastOp.called
    /\ EntryStatus(persistentState.content, lastOp.topic, "answer")
           \in {"absent", "loading", "error"}
    /\ EntryStatus(persistentState.content, lastOp.topic, "explanationAudio") = "absent"

\* The snapshot under the state key (only read where the key is present).
Snapshot == JSONparse(localStorage[APP_STATE_KEY])

\* C9: the stored snapshot never holds a non-empty explanationAudio.data;
\* after a write that succeeded it holds, for every topic, every other field
\* of the bundle and the audio entry's isLoading and error as they are in
\* memory; and the audio data a narration request delivered stays in memory.
C9_AudioStrippedOnPersist ==
    /\ HasField(localStorage, APP_STATE_KEY)
           => \A topic \in DOMAIN Snapshot.content :
                  ~HasTruthyData(Snapshot.content, topic, "explanationAudio")
    /\ lastWrite = "ok"
           => /\ HasField(localStorage, APP_STATE_KEY)
              /\ DOMAIN Snapshot.content = DOMAIN persistentState.content
              /\ \A topic \in DOMAIN persistentState.content :
                     LET kept   == Snapshot.content[topic]
                         bundle == persistentState.content[topic]
                     IN  /\ DOMAIN kept = DOMAIN bundle
                         /\ \A f \in DOMAIN bundle \ {"explanationAudio"} :
                                kept[f] = bundle[f]
                         /\ HasField(bundle, "explanationAudio")
                                => \A g \in {"isLoading", "error"} :
                                       /\ HasField(kept.explanationAudio, g)
                                              <=> HasField(bundle.explanationAudio, g)
                                       /\ HasField(bundle.explanationAudio, g)
                                              => kept.explanationAudio[g]
                                                     = bundle.explanationAudio[g]
    /\ (lastOp.op = "resolved" /\ lastOp.kind = "explanationAudio")
           => EntryStatus(persistentState.content, lastOp.topic,
                          "explanationAudio") = "data"

\* audio in memory, a snapshot of the same state without it
C9_Witness ==
    /\ lastWrite = "ok"
    /\ HasField(localStorage, APP_STATE_KEY)
    /\ \E topic \in DOMAIN persistentState.content :
           /\ HasTruthyData(persistentState.content, topic, "explanationAudio")
           /\ HasTruthyData(Snapshot.content, topic, "answer")
           /\ EntryAt(Snapshot.content, topic, "explanationAudio")
                  = {[isLoading |-> FALSE]}

\* The state with the data field of every topic's audio entry removed.
WithoutAudioData(state) ==
    [state EXCEPT !.content =
        [topic \in DOMAIN state.content |->
            [f \in DOMAIN state.content[topic] |->
                IF f = "explanationAudio"
                THEN RemoveField(state.content[topic][f], "data")
                ELSE state.content[topic][f]]]]

\* The state with the data field of every topic's audio entry removed
\* unless that data is the empty string.
WithoutNonEmptyAudioData(state) ==
    [state EXCEPT !.content =
        [topic \in DOMAIN state.content |->
            [f \in DOMAIN state.content[topic] |->
                IF f = "explanationAudio"
                THEN LET e == state.content[topic][f]
                     IN  [g \in {h \in DOMAIN e : h = "data" => e.data = ""} |-> e[g]]
                ELSE state.content[topic][f]]]]

\* C10 as stated: after every change of the persistent state whose write
\* succeeds the snapshot is the current state with each explanationAudio.data
\* removed.
C10_SnapshotIsStateWithoutAudio ==
    lastWrite = "ok"
        => /\ HasField(localStorage, APP_STATE_KEY)
           /\ Snapshot = WithoutAudioData(persistentState)

\* C10 as amended: after every change of the persistent state whose write
\* succeeds the snapshot is the current state with each non-empty
\* explanationAudio.data removed (an empty-string data is written as it is);
\* so a delivered explanation is in the snapshot under
\* content[topic].answer.data, and after a course reset the snapshot is the
\* default state.
C10_SnapshotIsStateWithoutNonEmptyAudio ==
    lastWrite = "ok"
        => /\ HasField(localStorage, APP_STATE_KEY)
           /\ Snapshot = WithoutNonEmptyAudioData(persistentState)
           /\ (lastOp.op = "resolved" /\ lastOp.kind = "answer")
                  => /\ EntryStatus(Snapshot.content, lastOp.topic, "answer") = "data"
                     /\ Snapshot.content[lastOp.topic].answer.data
                            = persistentState.content[lastOp.topic].answer.data
           /\ persistentState = defaultState => Snapshot = defaultState

\* an empty narration was delivered and its entry is in the snapshot as it is
C10_Witness ==
    /\ lastWrite = "ok"
    /\ HasField(localStorage, APP_STATE_KEY)
    /\ \E topic \in DOMAIN persistentState.content :
           /\ HasTruthyData(Snapshot.content, topic, "answer")
           /\ EntryAt(persistentState.content, topic, "explanationAudio")
                  = {[isLoading |-> FALSE, data |-> ""]}
           /\ Snapshot.content[topic] = persistentState.content[topic]

-----------------------------------------------------------------------------
(* C11..C20: startup, failures, frames and progress *)

\* C11: at startup an absent stored value yields the default state; a
\* stored value that fails to parse or lacks the top-level collections
\* yields the default state and the stored entry is removed; a stored value
\* that is present and structurally valid is the initial state.
C11_StartupLoad ==
    lastOp.op = "load"
        => LET text == lastOp.stored
           IN  /\ text.kind = "absent" => persistentState = defaultState
               /\ (text.kind # "absent" /\ ~HasCollections(text))
                      => persistentState = defaultState /\ lastOp.removed
               /\ HasCollections(text) => persistentState = JSONparse(text)

\* C12: a snapshot write that fails with a quota error leaves no item under
\* the state key, one that fails otherwise leaves the store as it was when
\* the write was attempted (the course reset has removed the item before);
\* either way the step's result is in memory, and a later write that
\* succeeds stores the state of that moment.
C12_WriteFailureKeepsMemory ==
    /\ [][faultsLeft' < faultsLeft
             => /\ lastWrite' \in {"quota", "other"}
                /\ lastWrite' = "quota" => ~HasField(localStorage', APP_STATE_KEY)
                /\ lastWrite' = "other"
                       => localStorage' = IF persistentState' = defaultState
                                          THEN removeItem(localStorage, APP_STATE_KEY)
                                          ELSE localStorage
                /\ lastOp'.op \in {"generate", "resolved", "rejected"}
                       => EntryStatus(persistentState'.content, lastOp'.topic,
                                      lastOp'.kind)
                              = CASE lastOp'.op = "resolved" -> "data"
                                  [] lastOp'.op = "rejected" -> "error"
                                  [] OTHER -> IF lastOp'.called THEN "loading"
                                              ELSE lastOp'.before]_vars
    /\ [](lastWrite = "ok"
             => /\ HasField(localStorage, APP_STATE_KEY)
                /\ Snapshot.selectedTopic = persistentState.selectedTopic
                /\ DOMAIN Snapshot.content = DOMAIN persistentState.content)

\* the write of a delivered explanation hit the quota: nothing is stored,
\* the explanation is in memory
C12_Witness ==
    /\ lastWrite = "quota"
    /\ ~HasField(localStorage, APP_STATE_KEY)
    /\ lastOp.op = "resolved"
    /\ EntryStatus(persistentState.content, lastOp.topic, lastOp.kind) = "data"

\* C13: every failure stays with the artifact or action that failed:
\* whenever the topic view shows a selected topic, its cached content and its generation buttons are
\* rendered, whatever generation, topic-list fetch, unit test, write or chat
\* stream has failed before.
C13_FailuresStayLocal ==
    (/\ chapterContentView = "topics"
     /\ persistentState.isCourseSelected
     /\ persistentState.selectedTopic # NULL)
        => ActionsShown

\* The view a button handler selects for its kind.
ViewOf(kind) == IF kind = "visualPrompt" THEN "visualize" ELSE kind

ViewAt(state, topic) ==
    IF HasField(state.activeView, topic) THEN {state.activeView[topic]} ELSE {}

\* C15: the view selected for a topic changes only in a generation action
\* of one of the four buttons for that topic, or when the course reset
\* empties the whole state; selecting a topic or a chapter changes no
\* topic's view.
C15_ViewsSurviveNavigation ==
    [][\A topic \in Topics :
          ViewAt(persistentState', topic) # ViewAt(persistentState, topic)
          => \/ \E kind \in ButtonKinds : GenerateStep(topic, kind)
             \/ persistentState' = defaultState]_vars

\* a view was selected for a topic, then another chapter was selected
\* (which leaves no topic selected): the view is still there
C15_Witness ==
    /\ lastOp = OtherOp
    /\ persistentState.selectedChapter # NULL
    /\ persistentState.selectedTopic = NULL
    /\ \E topic \in Topics : ViewAt(persistentState, topic) # {}

\* C16: in every step other than the course reset, which leaves the default
\* state with an empty store, every topic of the content store stays in it
\* and every entry of its bundle stays in the bundle.
C16_StoreOnlyGrows ==
    [][\/ persistentState' = defaultState
       \/ \A topic \in DOMAIN persistentState.content :
              /\ HasField(persistentState'.content, topic)
              /\ DOMAIN persistentState.content[topic]
                     \subseteq DOMAIN persistentState'.content[topic]]_vars

\* a request has failed in a store of two topics: its entry is still there
C16_Witness ==
    /\ lastOp.op = "rejected"
    /\ Cardinality(DOMAIN persistentState.content) = 2
    /\ EntryStatus(persistentState.content, lastOp.topic, lastOp.kind) = "error"

\* C17: the content store changes only in the steps of the generation
\* handlers and their continuations, and in the course reset, which empties
\* it: course, chapter and topic selection, the topic-list fetch, the unit
\* test, the chat, the theme toggle and the persist effect leave it as it is.
C17_StoreOwnedByGenerationHandlers ==
    [][persistentState'.content # persistentState.content
          => \/ lastOp'.op \in {"generate", "resolved", "rejected"}
             \/ persistentState' = defaultState]_vars

\* an explanation is in the store after a unit test was delivered, the
\* theme toggled and a chat reply streamed
C17_Witness ==
    /\ lastOp = OtherOp
    /\ HasTruthyData(persistentState.content, "t1", "answer")
    /\ HasField(chapterUnitTest, "data")
    /\ theme = "oled"
    /\ Len(chat.history) = MaxHistoryLen
    /\ chat.history[Len(chat.history)].parts # << >>

\* C18: right after a page load the audio entry of every topic has no data
\* and is not loading (so that a request for narration of a cached
\* explanation is not taken for a hit and calls the generator again).
C18_AudioIdleAfterReload ==
    lastOp.op = "load"
        => \A topic \in DOMAIN persistentState.content :
               \A e \in EntryAt(persistentState.content, topic, "explanationAudio") :
                   ~HasField(e, "data") /\ ~e.isLoading

\* Generator call `id` is awaited.
Outstanding(id) == \E request \in requests : request.id = id

\* C19: a request leaves the outstanding ones only when its own
\* continuation runs (no selection of a topic or chapter aborts it), that
\* step leaves its entry not loading with exactly one of data and error,
\* and every request that is started is settled in the end, the generator
\* answering every call.
C19_EveryRequestSettles ==
    /\ [][\A request \in requests :
              request \notin requests'
              => /\ SettleStep(request)
                 /\ lastOp'.topic = request.topic /\ lastOp'.kind = request.kind
                 /\ \E e \in EntryAt(persistentState'.content, request.topic,
                                      request.kind) :
                        /\ ~e.isLoading
                        /\ HasField(e, "data") # HasField(e, "error")]_vars
    /\ \A id \in 1..MaxCalls : Outstanding(id) ~> (~Outstanding(id) /\ callCount >= id)

\* a quiz request failed after the user had gone on to another chapter
C19_Witness ==
    /\ lastOp.op = "rejected"
    /\ lastOp.kind = "mcqs"
    /\ persistentState.selectedChapter # NULL
    /\ persistentState.selectedTopic = NULL
    /\ EntryStatus(persistentState.content, lastOp.topic, "mcqs") = "error"

\* C20: a generator call is made only in a step in which the user invokes a
\* generation action, one call for the pair of that action; and an entry
\* that holds an error stays as it is until the user invokes the action of
\* its pair again (or the course reset empties the store).
C20_NoCallWithoutUserAction ==
    [][/\ callCount' # callCount
           => /\ lastOp'.op = "generate" /\ lastOp'.called
              /\ callCount' = callCount + 1
              /\ \E request \in requests' \ requests :
                     /\ request.topic = lastOp'.topic
                     /\ request.kind = lastOp'.kind
                     /\ requests' = requests \cup {request}
       /\ \A topic \in Topics, kind \in Kinds :
              (/\ EntryStatus(persistentState.content, topic, kind) = "error"
               /\ EntryAt(persistentState'.content, topic, kind)
                      # EntryAt(persistentState.content, topic, kind))
              => \/ GenerateStep(topic, kind)
                 \/ persistentState' = defaultState]_vars

-----------------------------------------------------------------------------
(* C21..C30: failures, stale responses and what the store holds *)

ReplyIsLast(history) ==
    /\ Len(history) >= 2
    /\ history[Len(history) - 1].role = "user"
    /\ history[Len(history)].role = "model"

\* C22: when a chat stream fails, the reply in progress is the last message
\* of the history and is replaced by an error string, every earlier message
\* is kept, isChatLoading is false again and the session is still there to
\* send a further message in.
C22_StreamFailureKeepsSession ==
    [][lastOp'.op = "streamFailed"
          => LET n == Len(chat.history)
             IN  /\ ReplyIsLast(chat.history)
                 /\ Len(chat'.history) = n
                 /\ \A i \in 1..(n - 1) : chat'.history[i] = chat.history[i]
                 /\ chat'.history[n].role = "model"
                 /\ chat'.history[n].parts
                        = (IF lastOp'.failure.isError
                           THEN <<"Sorry, an error occurred: ", lastOp'.failure.message>>
                           ELSE <<"Sorry, I couldn't get a response.">>)
                 /\ ~chat'.isLoading
                 /\ chat'.session = chat.session
                 /\ chat'.session # {}
                 /\ chat'.isReady]_vars

\* C23: a run of the generation handler of one of the four buttons on a
\* topic sets the view of that topic to the view of the button, whatever
\* the state of the entry (absent, cached, loading, failed), and leaves the
\* view of every other topic as it is; a run of the narration handler
\* leaves every view as it is.
C23_GenerateSelectsView ==
    [][\A topic \in Topics, kind \in Kinds :
          GenerateStep(topic, kind)
          => persistentState'.activeView
                 = IF kind \in ButtonKinds
                   THEN WithField(persistentState.activeView, topic, ViewOf(kind))
                   ELSE persistentState.activeView]_vars

\* a button was clicked again while its request was in flight; another
\* topic has the view of another button
C23_Witness ==
    /\ lastOp.op = "generate"
    /\ lastOp.kind \in ButtonKinds
    /\ lastOp.before = "loading"
    /\ ~lastOp.called
    /\ ViewAt(persistentState, lastOp.topic) = {ViewOf(lastOp.kind)}
    /\ \E topic \in Topics \ {lastOp.topic} :
           /\ ViewAt(persistentState, topic) # {}
           /\ ViewAt(persistentState, topic) # {ViewOf(lastOp.kind)}

\* C24: an entry of the content store is loading only while a generator
\* request of its (topic, kind) pair is outstanding, also right after the
\* page was loaded again over a snapshot written during a request.
C24_LoadingHasRequest ==
    \A topic \in Topics, kind \in Kinds :
        EntryStatus(persistentState.content, topic, kind) = "loading"
            => RequestsFor(topic, kind) # {}

\* C25: a response to a request issued before a course reset writes
\* nothing into the store the reset has emptied (a request whose topic has
\* no bundle was issued before the reset: issuing it created the bundle and
\* only the reset removes bundles), and every bundle of the store carries
\* the question field, equal to its topic key.
C25_StaleResponseDropped ==
    /\ [][\A request \in requests :
              (SettleStep(request)
               /\ ~HasField(persistentState.content, request.topic))
              => persistentState'.content = persistentState.content]_vars
    /\ [](\A topic \in DOMAIN persistentState.content :
              /\ HasField(persistentState.content[topic], "question")
              /\ persistentState.content[topic].question = topic)

\* C26: a topic whose narration entry is loading or holds data has an
\* explanation entry with data, and the narration is that of exactly this
\* explanation: the script of a narration request awaited is the
\* explanation the store holds.
C26_AudioHasItsExplanation ==
    \A topic \in Topics :
        /\ EntryStatus(persistentState.content, topic, "explanationAudio")
               \in {"loading", "data"}
               => EntryStatus(persistentState.content, topic, "answer") = "data"
        /\ \A request \in RequestsFor(topic, "explanationAudio") :
               EntryStatus(persistentState.content, topic, "explanationAudio") = "loading"
               => request.script = CurrentExplanation(persistentState.content, topic)

\* The kinds whose generator is called with the selected chapter.
ChapterKinds == {"answer", "realWorldExample"}

\* C27: content displayed for the selected topic was generated with the
\* chapter that is selected: a response that has just arrived and is
\* displayed is that of a call made with the selected chapter, and when it
\* is that of a call made with another chapter, the generation action under
\* the selected chapter is no cache hit but calls the generator.
C27_ContentOfSelectedChapter ==
    /\ [](\A kind \in ChapterKinds :
              (/\ lastOp.op = "resolved"
               /\ lastOp.kind = kind
               /\ Displayed(lastOp.topic, kind))
              => lastOp.chapter = persistentState.selectedChapter)
    /\ [][\A kind \in ChapterKinds :
              (/\ lastOp.op = "resolved"
               /\ lastOp.kind = kind
               /\ lastOp.chapter # persistentState.selectedChapter
               /\ GenerateStep(lastOp.topic, kind))
              => lastOp'.called]_vars

\* The collections of the persistent state that the application dereferences.
Collections == {"topics", "content", "activeView", "noMoreTopics"}

\* C28: the state a page load starts from has every collection the
\* application dereferences: a stored value accepted as valid is never
\* without topics or noMoreTopics.
C28_LoadedStateHasCollections ==
    lastOp.op = "load" => Collections \subseteq DOMAIN persistentState

\* C29: a chunk of a reply stream, and the error string of a stream that
\* failed, go to the reply the send of that stream created and nowhere
\* else: a step of a stream changes the history only when its reply is the
\* last message, and then only that message; after a chapter or course
\* change has replaced or emptied the history it changes nothing and no
\* render fails.
C29_StreamWritesOnlyItsReply ==
    [][(chatStream # {} /\ chatStream' # chatStream)
          => /\ ~chat'.crashed
             /\ chat'.history # chat.history
                    => /\ ReplyIsLast(chat.history)
                       /\ Len(chat'.history) = Len(chat.history)
                       /\ \A i \in 1..(Len(chat.history) - 1) :
                              chat'.history[i] = chat.history[i]]_vars

\* C30: the unit test held is that of the selected chapter: the response
\* of a unit-test call made under a chapter selected before does not
\* become the held test once another chapter is selected, and a response
\* does not overwrite the state of a request issued after its own.
C30_UnitTestOfSelectedChapter ==
    /\ []((HasField(chapterUnitTest, "data") /\ persistentState.selectedChapter # NULL)
              => chapterUnitTest.data.chapter = persistentState.selectedChapter)
    /\ [][\A request \in unitTestRequests \ unitTestRequests' :
              (\E newer \in unitTestRequests : newer.id > request.id)
              => chapterUnitTest' = chapterUnitTest]_vars

-----------------------------------------------------------------------------
(* C31..C38: selection, round trip, chat, topic lists, narration, *)
(* feedback, theme, intro *)

\* C31: a selected topic comes with a selected chapter whose cached topic
\* list contains it, and a selected chapter with a selected course (subject
\* and standard); a step that selects another chapter leaves no topic
\* selected, and selecting the chapter that is selected changes nothing.
C31_SelectionConsistent ==
    /\ [](/\ persistentState.selectedTopic # NULL
              => /\ persistentState.selectedChapter # NULL
                 /\ persistentState.selectedTopic \in ListedTopics
          /\ persistentState.selectedChapter # NULL
              => /\ persistentState.isCourseSelected
                 /\ persistentState.subject # NULL
                 /\ persistentState.standard # NULL)
    /\ [][/\ (/\ persistentState'.selectedChapter # persistentState.selectedChapter
               /\ persistentState'.selectedChapter # NULL)
              => persistentState'.selectedTopic = NULL
          /\ \A chapter \in Chapters :
                 (/\ persistentState.selectedChapter = chapter
                  /\ handleChapterSelect(chapter))
                 => UNCHANGED << persistentState, isTopicsLoading, error,
                                 chapterContentView, chapterUnitTest, localStorage,
                                 requests, topicRequests, callCount, fetchCount,
                                 theme, chat, chatStream, unitTestRequests,
                                 unitTestCount >>]_vars

\* a topic of the second chapter the user went to is selected
C31_Witness ==
    /\ persistentState.selectedTopic = "t2"
    /\ persistentState.selectedChapter # NULL
    /\ DOMAIN persistentState.topics = Chapters
    /\ \E topic \in Topics \ {"t2"} : HasField(persistentState.activeView, topic)

\* C32 as stated: loading the snapshot written for the persistent state
\* yields that state with the data of every explanationAudio entry removed
\* and nothing else changed.
C32_RoundTripWithoutAudio ==
    loadPersistentState(localStorage).state = WithoutAudioData(persistentState)

\* C32 as amended: loading the snapshot written for the persistent state
\* yields that state with every non-empty explanationAudio.data removed and
\* nothing else changed (an audio entry whose data is the empty string comes
\* back with it), the default state included; the load removes nothing from
\* the store.
C32_RoundTripWithoutNonEmptyAudio ==
    LET loaded == loadPersistentState(localStorage)
    IN  /\ loaded.state = WithoutNonEmptyAudioData(persistentState)
        /\ ~loaded.removed
        /\ loaded.store = localStorage
        /\ persistentState = defaultState => loaded.state = defaultState

\* a state with a selected topic, a view and a delivered narration, whose
\* snapshot loads to the explanation without the narration
C32_Witness ==
    /\ persistentState.selectedTopic # NULL
    /\ persistentState.activeView # EmptyObject
    /\ \E topic \in DOMAIN persistentState.content :
           /\ HasTruthyData(persistentState.content, topic, "explanationAudio")
           /\ EntryAt(loadPersistentState(localStorage).state.content, topic,
                      "explanationAudio") = {[isLoading |-> FALSE]}
           /\ loadPersistentState(localStorage).state.content[topic].answer
                  = persistentState.content[topic].answer

\* C33: a send is a no-op when there is no chat session, while a reply is
\* streaming or when the message is blank, and otherwise appends the user's
\* message and one empty message of the model and starts one stream; at
\* most one stream is awaited at any time and isChatLoading is true exactly
\* while one is.
C33_OneStreamAtATime ==
    /\ [](/\ Cardinality(chatStream) <= 1
          /\ chat.isLoading <=> chatStream # {})
    /\ [][\A message \in ChatInputs :
              handleSendMessage(message)
              => IF chat.session = {} \/ chat.isLoading \/ message \in {"", " "}
                 THEN UNCHANGED << persistentState, isTopicsLoading, error,
                                   chapterContentView, chapterUnitTest,
                                   localStorage, requests, topicRequests,
                                   callCount, fetchCount, theme, chat, chatStream,
                                   unitTestRequests, unitTestCount >>
                 ELSE /\ chat'.history
                            = chat.history \o <<[role |-> "user", parts |-> <<message>>],
                                                [role |-> "model", parts |-> << >>]>>
                      /\ chat'.isLoading
                      /\ chat'.session = chat.session
                      /\ Cardinality(chatStream') = 1]_vars

\* a message was sent in the session of a chapter: the history is the
\* welcome message, the user's message and the empty reply, and the one
\* stream awaited is that of this session
C33_Witness ==
    /\ chat.isLoading
    /\ chatStream = {[session |-> chat.session, chunks |-> 0]}
    /\ \E session \in chat.session : session.chapter # NULL
    /\ Len(chat.history) = 3
    /\ chat.history[2] = [role |-> "user", parts |-> <<"hi">>]
    /\ chat.history[3] = [role |-> "model", parts |-> << >>]

\* The getChapterTopics calls of one chapter that are awaited.
TopicRequestsFor(chapter) == {r \in topicRequests : r.chapter = chapter}

\* The topic list of a chapter, as fetchTopics reads it: prev.topics[chapter] || []
TopicsOf(state, chapter) ==
    IF HasField(state.topics, chapter) THEN state.topics[chapter] ELSE << >>

\* C34: at most one getChapterTopics call per chapter is awaited; the step
\* in which a call settles clears the chapter's loading flag, and it either
\* puts a non-empty batch after the chapter's list (the list is a proper
\* prefix of the new one, no other list and no noMoreTopics flag changes),
\* or sets noMoreTopics[chapter] and changes no list, or (the call having
\* failed) changes neither; selecting a chapter that has a list issues no
\* call.
C34_TopicFetch ==
    /\ [](\A chapter \in Chapters : Cardinality(TopicRequestsFor(chapter)) <= 1)
    /\ [][/\ topicRequests' # topicRequests /\ topicRequests' \subseteq topicRequests
           => \E request \in topicRequests \ topicRequests' :
                 LET chapter == request.chapter
                     old == TopicsOf(persistentState, chapter)
                     new == TopicsOf(persistentState', chapter)
                 IN  /\ topicRequests' = topicRequests \ {request}
                     /\ HasField(isTopicsLoading', chapter)
                     /\ ~isTopicsLoading'[chapter]
                     /\ \/ /\ Len(new) > Len(old)
                           /\ SubSeq(new, 1, Len(old)) = old
                           /\ persistentState'.topics
                                  = WithField(persistentState.topics, chapter, new)
                           /\ persistentState'.noMoreTopics
                                  = persistentState.noMoreTopics
                        \/ /\ persistentState'.topics = persistentState.topics
                           /\ persistentState'.noMoreTopics
                                  = WithField(persistentState.noMoreTopics,
                                              chapter, TRUE)
                        \/ /\ persistentState' = persistentState
                           /\ error' # NULL
       /\ /\ persistentState'.selectedChapter # persistentState.selectedChapter
          /\ persistentState'.selectedChapter # NULL
          /\ HasField(persistentState.topics, persistentState'.selectedChapter)
          => UNCHANGED << topicRequests, fetchCount, isTopicsLoading >>]_vars

\* a second batch has arrived at a chapter that had a one-topic list, and
\* the list now holds the first topic followed by the second
C34_Witness ==
    /\ fetchCount = 2
    /\ topicRequests = {}
    /\ HasField(persistentState.topics, "c1")
    /\ persistentState.topics["c1"] = <<"t2", "t1">>
    /\ HasField(isTopicsLoading, "c1")
    /\ ~isTopicsLoading["c1"]

\* C37: the theme is light or oled and the stored theme value is the theme
\* in memory; a load yields oled when the value it found is exactly 'oled'
\* and light otherwise; a toggle selects the other theme, so that two
\* toggles select the original one; the course reset changes neither the
\* theme nor its stored value.
C37_ThemeStored ==
    /\ [](/\ theme \in Themes
          /\ StoredTheme(localStorage) = theme
          /\ ToggledTheme(theme) \in Themes \ {theme}
          /\ ToggledTheme(ToggledTheme(theme)) = theme
          /\ lastOp.op = "load"
             => theme = IF lastOp.savedTheme = "oled" THEN "oled" ELSE "light")
    /\ [][/\ toggleTheme => theme' = ToggledTheme(theme)
          /\ resetStateForNewSelection
             => /\ theme' = theme
                /\ StoredTheme(localStorage') = StoredTheme(localStorage)]_vars

\* the page was reloaded with a course selected, over the stored value
\* 'oled', and came up in the oled theme
C37_Witness ==
    /\ lastOp.op = "load"
    /\ lastOp.savedTheme = "oled"
    /\ theme = "oled"
    /\ persistentState.isCourseSelected

\* C38: the intro phase changes only from start to fly, from fly to fade and
\* from fade to hidden, and in the end it is hidden for good; the intro
\* overlay is rendered exactly while the phase is not hidden, and the logo
\* of the header is visible exactly in the phases fade and hidden.
C38_IntroRunsOnce ==
    /\ [][introPhase' # introPhase
           => << introPhase, introPhase' >> \in { << "start", "fly" >>,
                                                  << "fly", "fade" >>,
                                                  << "fade", "hidden" >> }]_vars
    /\ <>[](introPhase = "hidden")
    /\ [](/\ introPhase \in {"start", "fly", "fade", "hidden"}
          /\ IntroRendered(introPhase) <=> introPhase \in {"start", "fly", "fade"}
          /\ logoVisible(introPhase) <=> introPhase \notin {"start", "fly"})

\* the three timeouts have run while the user selected a course and a
\* chapter: the phase is hidden, the overlay is gone and the logo shows
C38_Witness ==
    /\ introPhase = "hidden"
    /\ introTimers = {}
    /\ ~IntroRendered(introPhase)
    /\ logoVisible(introPhase)
    /\ persistentState.selectedChapter # NULL

\* C36: a submit issues exactly one POST, of the name, class and message of
\* the form, and nothing else issues one; the status changes only from
\* idle or error to submitting, from submitting to success or error, and to
\* idle when the modal is opened; it is not submitting once no POST is
\* awaited; a POST is issued only when the status is not submitting and
\* neither the name nor the message is blank; opening the modal leaves the
\* status idle.
C36_FeedbackSubmit ==
    /\ [](feedback.status = "submitting" => feedbackPosts # {})
    /\ [][/\ feedbackPosts' \ feedbackPosts # {}
             => /\ feedbackPosts' \ feedbackPosts
                      = {[body |-> [name |-> feedback.name,
                                    class |-> feedback.studentClass,
                                    message |-> feedback.message],
                          call |-> postCount + 1]}
                /\ feedbackPosts \subseteq feedbackPosts'
                /\ feedback.status # "submitting"
                /\ feedback.name \notin {"", " "}
                /\ feedback.message \notin {"", " "}
                /\ feedback'.status = "submitting"
          /\ ~isModalOpen /\ isModalOpen' => feedback'.status = "idle"
          /\ feedback'.status # feedback.status
             => \/ ~isModalOpen /\ isModalOpen' /\ feedback'.status = "idle"
                \/ /\ feedback.status \in {"idle", "error"}
                   /\ feedback'.status = "submitting"
                \/ /\ feedback.status = "submitting"
                   /\ feedback'.status \in {"success", "error"}
                   /\ feedbackPosts' # feedbackPosts]_vars

\* C35: the playback state of a mounted card is idle, loading, playing or
\* paused, and it is loading (the button disabled) while the entry is
\* loading; it changes only to loading with a loading entry, from loading
\* to idle, from idle to playing by a click that finds a decoded buffer,
\* from playing to paused, from paused to playing, and from playing to
\* idle when the source node ends; a step that requests the narration
\* starts no source node; at most one source node plays.
C35_PlaybackStateMachine ==
    /\ [](/\ playbackState \in PlaybackStates \cup {NULL}
          /\ playbackState # NULL /\ (\E entry \in audioState : entry.isLoading)
             => playbackState = "loading"
          /\ playingSources <= 1)
    /\ [][/\ speechCalls' > speechCalls
             => /\ playbackState = "idle" /\ ~audioBuffer
                /\ playingSources' = playingSources
                /\ playbackState' = "loading"
          /\ playbackState # NULL /\ playbackState' # NULL
               /\ playbackState' # playbackState
             => \/ /\ playbackState' = "loading"
                   /\ \E entry \in audioState' : entry.isLoading
                \/ playbackState = "loading" /\ playbackState' = "idle"
                \/ /\ playbackState = "idle" /\ playbackState' = "playing"
                   /\ audioBuffer
                   /\ playingSources' = 1
                \/ playbackState = "playing" /\ playbackState' = "paused"
                \/ playbackState = "paused" /\ playbackState' = "playing"
                \/ /\ playbackState = "playing" /\ playbackState' = "idle"
                   /\ playingSources' = 0]_vars

=============================================================================
